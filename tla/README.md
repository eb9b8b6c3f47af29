# CheckinMe API: specifications, model checks and proofs

CheckinMe is an HTTP server in Go over one PostgreSQL database. Every request is
served by a goroutine of its own, every handler works through SQL statements or a
READ COMMITTED transaction, and several instances of the server may share the
database. What makes it hard is not any one handler but the interleaving of their
statements: which rows a statement sees, which locks it waits for, what is rolled
back, and what the client has been told by then. This directory models those
interleavings in TLA+, checks them with TLC on small instances and proves the
main results with TLAPS for all instances. It also models what surrounds the
transactions: the in-process cache and background jobs, the start of several
instances that migrate one schema, and the first set-up.

All line numbers are those of `src/internal/httpapi/server.go` unless another file
is named.

## 1. Inventory

| Component | State | Operations | What makes it correct |
|---|---|---|---|
| Attendance clocking (505-621, 1578-1734, 2188-2336) | `attendance_events`, `attendance_sessions`, `device_events`, `scan_count` of tokens, `audit_logs` | clock in/out by mobile, QR, face scan, device webhook | one open session per employee; punches and sessions match; a device event counts once; answers are true; finished shifts are final |
| Monthly payroll (1308-1550) | `payroll_runs`, `payroll_items` | calculate, recalculate, approve | one run per month; a run adds up; an approved run is final |
| Earned wage access (2693-2794) | `ewa_requests` | request, review, deduction by payroll | a decision is final; only approved advances are deducted; the cap; every advance is repaid |
| Rate limiter (2818-2869) | `rateMap` under `rateMu` | admit or refuse a request, remove idle buckets | the rate is kept; nobody is refused early |
| Leave and overtime (817-1009) | `leave_requests`, `overtime_requests` | request, review | a run pays what was decided before it was calculated |
| Fraud review (776-815) | `fraud_status` of punches | review | a review that was answered shows in the reports |
| QR tokens, branches, geofence (413-495, 2050-2186, 2338-2359) | `attendance_qr_tokens`, `branches` | issue, verify | expiry and radius are respected |
| Bank accounts and batches (2501-2691) | `bank_accounts`, `bank_transfer_batches`, `bank_transfer_items` | add account, create batch, mark submitted | every employee once, for the net pay; only approved runs |
| Report cache (638-652, 1736-1767, 2904-2908, `internal/cache/memory.go`) | an in-memory map with expiry | read through, invalidate by prefix | the age of a report is bounded; a report shows the writes that were answered |
| Migrations (`internal/db/migrate.go`) | `schema_migrations`, an advisory lock | apply at start-up | each migration once and in order; nothing is served before the last |
| Setup, login, employees, roles (166-411, `internal/security`, `internal/middleware`) | `organizations`, `users`, signed tokens | set up, log in, create, update | an organisation is complete; one owner for an address; roles are enforced |
| Background jobs (2887-2902, `internal/services/telegram.go`) | a semaphore of `ASYNC_WORKER_LIMIT` | run or drop a job | never more jobs than slots, slots are returned |
| Sales, KPIs, schedules, exports, lists | one table each | single statements, queries | formatting and filters |
| Arithmetic (3033-3078) | none | tax, late minutes, distance | monotone, continuous at the brackets |
| Configuration and start-up (`internal/config`, `internal/db`, `cmd/api`) | none | validation, wiring | bounds other parts rely on |

How they interact: payroll reads sessions, leave, overtime and advances, one
statement per employee and table, while they change; attendance, sales and
employee writes invalidate the report cache after their commit; attendance starts
a background job for Telegram; bank batches read approved runs; all requests but
health checks pass the rate limiter and a timeout that cancels the statement in
progress. Nothing in the process is persisted: after a crash the database has
what was committed, and everything else is lost.

The hard behaviours, each at its line, are the `hazards` of `PROJECT.json`.

## 2. Modules

| Module | Content |
|---|---|
| `ShiftLedger` | abstract: employees alternate between on and off shift, a finished shift stays |
| `Attendance` | the mobile handler and the device webhook as concurrent transactions |
| `AttendanceProofs` | theorems about `Attendance` |
| `Sums` | lemmas about sums over finite sets, for the proofs about money |
| `PayMonth` | abstract: no run, drafts, an approved run that stays |
| `Payroll` | calculation, approval, requests for advances and their reviews |
| `PayrollProofs` | theorems about `Payroll` |
| `RateLimiter` | the token buckets |
| `RateLimiterProofs` | theorems about `RateLimiter` |
| `Payslip` | the arithmetic of one payslip |
| `PayslipProofs` | theorems about the arithmetic |
| `PayInputs` | `Payroll` with what a calculation reads: leave and overtime requests, payslips |
| `BankTransfers` | `Payroll` with bank accounts and the batches that pay a run |
| `PayDay` | `PayInputs` and `BankTransfers` over one payroll; it implements `Payroll` |
| `PayDayProofs` | theorems about `PayDay` with `PayInputs` and `BankTransfers` |
| `Dashboard` | reports, the cache, the writes that invalidate it, background jobs |
| `DashboardProofs` | theorems about `Dashboard` |
| `Migrate` | instances that start, migrate and stop |
| `Setup` | concurrent requests to `/setup` |
| `Startup` | `Migrate` and `Setup` together |
| `StartupProofs` | theorems about `Startup` |
| `MCAttendance`, `MCPayroll`, `MCRateLimiter`, `MCPayDay`, `MCDashboard`, `MCStartup` | instances for TLC |

### How transactions are modelled

One element of `Requests` (or `Calcs`) is one HTTP request, and `pc` is its next
statement. An action is one statement together with the Go code up to the next
one, so any two statements of different requests can come in either order.
Four rules of PostgreSQL are built in; they are the external part of the map:

- A row written by a running transaction is not visible to others. It is not
  stored in the model either: which rows a request has pending and which locks it
  holds is a function of its `pc` (`HoldsToken`, `InsertedDevice`, `InsertedOpen`,
  `HoldsSession`, `Inserted`, `Replaces`). `Commit` makes them all visible in one
  step, a rollback is the absence of that step.
- `SELECT ... FOR UPDATE` that meets a row locked by another transaction waits
  (`AwaitRow`, `AwaitRun`), and then looks at the new version of that row and of
  no other (`Recheck`, `RecheckRun`). It cannot lock a row that does not exist.
- An INSERT that conflicts with a pending row of a unique index, or with a
  pending deletion, waits for that transaction, and then succeeds or fails
  (`InsertDevice`, `InsertSession`, `InsertRun`).
- A statement may fail at any time: deadline, lost connection, crash of the
  server (`Abort`). A commit may succeed and its confirmation be lost
  (`LoseAnswer`, the answer `"error"` of `Commit` in `Payroll`).

### Attendance

| Action | Code |
|---|---|
| `Receive` | 506-541, 1579-1640: decoding and validation; the device's `event_at` is any time |
| `Refuse` | 400 and 404 of `verifyAttendanceEvidence` and of the device's user lookup |
| `Evidence` | `verifyAttendanceEvidence`, 2188-2253, with the UPDATE that locks the token row |
| `Assess` | `assessAttendanceFraud`, 2255-2336: the time of the punch, replay and duplicate signals, the threshold |
| `Block` | 554-559: audit row and scan are committed, errors ignored, 403 |
| `Dedupe`, `InsertDevice` | 1667-1700 |
| `SelectOpen`, `Recheck` with `NoOpenRow`, `OpenRow`, `AwaitRow` | 566-594, 1701-1720 |
| `InsertSession` | 578-583, 1712 |
| `Commit`, `Reply`, `LoseAnswer`, `Abort` | 595-621, 1728-1734, the deferred Rollback |

GPS, face score and the other signals that depend only on the request are the
number `base`; which of them contributed is left out. Late and overtime minutes
are functions of the two times of a session and are left out too.

### Payroll

| Action | Code |
|---|---|
| `Start`, `SelectRun`, `RecheckRun` with `RunFound`, `NoRunFound`, `AwaitRun` | 1308-1348 |
| `InsertRun` | 1349-1382 |
| `AddItem` | one employee of the loop 1383-1427 |
| `Totals`, `Commit`, `Abort` | 1428-1436 |
| `Approve` | 1535-1550 |
| `AskAdvance`, `InsertAdvance`, `FailAdvance` | 2693-2733: check and insert are two statements outside a transaction |
| `ReviewAdvance` | 2767-2794 |

`Earnings` is the set of amounts an employee may be left with before advances are
deducted; each calculation may find another one, because sessions, leave and
overtime change between its statements. The employees of the month are fixed.
One organisation and one month are modelled: runs of different months and
organisations share no row and no key.

### RateLimiter

`Arrive` reads the clock, `Limit` is the whole section under `rateMu`; between
them requests of one client overtake each other, so `now` is out of order when
the bucket is used. Tokens are integers in units of 1/Minute of a token, where the
code uses float64. `MaxDelay` bounds the wait for the mutex.

### PayInputs, Payslip, BankTransfers and PayDay

| Action | Code |
|---|---|
| `CreateLeave`, `CreateOvertime` | 817-851, 916-944 |
| `ReviewLeave`, `ReviewOvertime` | 888-914, 983-1009: one UPDATE, whatever the status was |
| `ReadAttendance`, `ReadOvertime`, `ReadLeave` | 1440-1460: the SELECTs of one employee, a snapshot each |
| `PayItem` | 1398-1427: the fourth SELECT, `TakeHome` and the row; it is `AddItem` of `Payroll` |
| `PayrollStep` | the other steps of `Payroll` |
| `AddAccount`, `Demote`, `InsertAccount`, `CommitAccount`, `AbortAccount` | 2531-2589 |
| `CheckRun`, `OpenBatch`, `FillBatch`, `CommitBatch`, `AbortBatch` | 2591-2648 |
| `MarkSubmitted` | 2676-2691 |

`PayDay` composes the two: a step of one leaves the variables of the other alone,
and both use the tables of `Payroll`. `Demote` is the UPDATE of line 2576: its
snapshot is taken in `AddAccount`, it waits for rows held by others
(`HeldByOther`), and a row inserted since is not among those it demotes. The rows
it waits for are locked in one step. `FillBatch` is one INSERT ... SELECT; the
constraint `amount_cents > 0` makes a single employee with nothing to pay fail the
whole batch. Provider, currency and account name are left out.

`Payslip` has the rules `seedPayrollDefaults` writes and salaries in USD. The code
divides in float64 and rounds; the module rounds the exact quotient, so it can
differ where float64 falls on the other side of a half. The rule
`late_grace_minutes` and the table `payroll_tax_brackets` are seeded, but nothing
reads them, and so they are not in the model either.

### Dashboard

| Action | Code |
|---|---|
| `CreateEmployee`, `UpdateEmployee` | 305-411 |
| `FindCustomer`, `SalesVisitCheckIn`, `SalesVisitCheckOut` | 1078-1152 |
| `UpdateFraudAlert`, `CommitFraudReview`, `Fail` | 776-815 |
| `CommitPunch`, `CommitDevicePunch` | 612-616, 1728-1734: the end of what `Attendance` models |
| `Invalidate` | `invalidateOrgCaches`, 2904-2908, with `DeletePrefix` |
| `RunAsync`, `Panic` | `runAsync`, 2887-2902 |
| `AskReport`, `Query`, `ReportFails`, `Store` | `reportSummary`, 1736-1767 |
| `AskChat`, `Query`, `ChatFails`, `Store`, `Send` | `sendAttendanceTelegram` and `orgTelegramChatID`, 623-652; `SendMessage` |
| `Lookup`, `Evict` | `GetJSON`: the read under RLock, and the deletion of an expired entry under a lock of its own |

Writes are numbered as they commit, and what a report says is the number of
writes its SELECT saw. `wrote`, `answered`, `crossed` and `failedAt` are history
variables that no action depends on, except through the entry they label. `Lookup`
merges the read of the map with the reading of the clock after it. A write is
answered (`"ok"`), or its commit's confirmation is lost and the handler answers
500 without invalidating (`"error"`). The cache is that of one instance
(`docs/CHANGELOG.md:48`): what another instance writes invalidates nothing here, which
is the case of a write without invalidation. The chat of an organisation is
never changed by the program. Background jobs have no deadline for their
database calls (`context.Background()`), so the clock does not wait for them.

### Migrate, Setup and Startup

| Action | Code |
|---|---|
| `Connect`, `EnsureSchema` | `internal/db/db.go`, called by `main` |
| `TakeLock`, `Check`, `Apply`, `Record`, `CommitFile`, `Unlock` | `Migrate`, `internal/db/migrate.go` |
| `Stop`, and `Down` in `Record` | `log.Fatalf`, signals, crashes: `cmd/api/main.go` |
| `CloseConn` | a pooled connection ends and PostgreSQL releases its session locks |
| `Accept`, `StopServing` | `main`: the server listens after the migrations, and takes its requests with it |
| `Count`, `InsertOrg`, `InsertOwner`, `SeedDefaults`, `CommitOrg`, `AbortSetup` | `setup`, 166-222, and `seedPayrollDefaults`, 2962-3005 |

`pg_advisory_lock`, the migrations and `pg_advisory_unlock` are separate calls on a
pool. A session lock is held by the connection that took it, `holder`; an unlock on
another connection does nothing, and the code ignores its answer. `AUTO_MIGRATE`
is assumed to be on. The SQL of a file is one step, since the files are
idempotent (`migrate.go:15`) and run in a transaction.

## 3. Runs

| Run | Shows | Bounds |
|---|---|---|
| `attendance` | the seven invariants of `Attendance` | 3 requests, 1 employee, 1 token, 1 device event, clock 0..2, window 1 |
| `attendance_shifts` | `Attendance` implements `ShiftLedger`; finished shifts are frozen | 4 requests without tokens, clock 0..1 |
| `attendance_live` | every request is answered | 3 requests, 1 employee, clock stopped |
| `attendance_resend` | counterexample, see findings | as above, no failures |
| `payroll` | five invariants of `Payroll`; it implements `PayMonth` | 3 calculations, 2 employees, 2 advances of 2, earnings 3, cap 4 |
| `advances_cap`, `advances_repaid` | counterexamples, see findings | 2 advances |
| `payday` | six invariants of a month; `PayDay` implements `Payroll` | 2 calculations, 1 employee, 1 leave or overtime request, 2 account requests, 2 numbers, 1 batch |
| `dashboard` | five invariants of `Dashboard` | 2 reports, 2 writing requests, 1 period, 1 slot, clock 0..3, TTL, floor and delay 1 |
| `startup` | six invariants; every instance ends up serving | 2 instances with 2 connections each, 2 files, 2 stops, 2 callers, 2 addresses |
| `setup_once` | counterexample, see findings | 2 instances, 1 file, 2 callers |
| `rate_limiter` | four invariants of `RateLimiter` | 5 requests, 2 clients, burst 2, 3 tokens per 2 ticks, map limit 1 |

Why the bounds are enough: attendance requests of different employees share only
token rows, whose locks are taken and released independently of the employee, so
one employee is where conflicts are. Three requests allow one that waits for a
second while a third commits between them; a token, a device key and a session
row can all be contested at once. Four requests without tokens are two whole shifts, so a
waiting clock-out can meet the next shift. With two ticks and a window of one,
punches fall inside and outside of the window. Three calculations allow one that
replaces a run, one that waits for it and one that inserts meanwhile; two advances
of 2 against earnings of 3 reach the cut-off at 0. Five rate-limited requests
against a burst of 2 and a limit of one bucket let a bucket be used up, removed
and created again while an older request is still waiting; the keep time of 3 is
the least the assumption `RefillAssumption` allows with a delay of 1.

In `payday` one employee and two calculations are enough for the races it is
about: rows of different employees are summed and locked independently, and
`payroll` has two of them. The request may be decided any number of times; its
values (10 hours of overtime, 22 days of leave, 30 minutes late on a salary of
$480) cross a tax bracket and bring the net pay down to 0, which is where a batch
fails. Two account requests are what it takes for two primary accounts.
Advances are left out there; `payroll` has them. `SlicesMeet` also looks at 5
and 7 times the salary, so that all brackets that tax are reached.

In `dashboard` the clock goes one tick beyond the largest age of a report, TTL plus
delay; two reports allow one to store while the other is between reading and
deleting an expired entry, and two writers allow a write whose confirmation is
lost next to one that was answered, or two jobs that compete for one slot. With a
TTL of 0, which the guards cover and the instance does not, nothing is stored
and every report is a SELECT. In `startup` two stops let an instance die while
it holds the lock and again later, two files let it die between them, and two
connections let the unlock miss.

Fairness: `startup` assumes weak fairness of the steps of every instance, because
the platform restarts a service that ended (`migrate.go:16`) and a program that runs
goes on, and of the closing of a connection whose instance serves but still holds
the lock: pgxpool replaces every connection at the end of its lifetime, one hour
by default. Without the second, another instance could wait for ever; this is the
delay an unlock on the wrong connection costs. Stops are finite in number.
`attendance_live` assumes weak fairness of `Serve(r)` for
every request. A goroutine is scheduled and PostgreSQL executes its statements;
a transaction that waits goes on when the lock is free. Nothing that fails is
assumed to happen, and no request is assumed to arrive. Weak fairness suffices
because nobody can take a lock away from a waiting request for ever: each of the
finitely many requests ends once.

`NeverStuck` in `payroll` says the same of calculations without fairness: in
every state in which one is under way, some calculation has a next statement
other than failing.

Every property of a passing run has a mutant: a definition marked "Seeded fault"
beside the one it replaces, which TLC shows to violate the property. They name
the ways this could go wrong: a missing index, a lost FOR UPDATE, a statement run
through the pool, a guard dropped, a time that runs backwards.

## 4. Findings

1. `attendance_resend`: `docs/V5_3_OPTIMIZATION.md:45` promises
   `duplicate: true` for an event sent again. If the first copy has not committed,
   the second passes the SELECT (1669), waits in the INSERT (1691) and is answered
   500. The event is not recorded twice (`DeviceIdempotent`). Two copies past the
   SELECT at a time are the only cause (`NoErrorIfResentAlone`).
2. `advances_cap`: line 2977 describes a maximum for advances. Check (2717) and
   insert (2727) are separate statements, so two requests of one employee exceed
   it together. The run assumes that no SELECT fails (`Reliable`); in the code its
   error is ignored as well. With a check and an insert that no other request of
   the employee interrupts, the cap is kept (`CapIfAskedAlone`).
3. `advances_repaid`: `README.md:51` names the deduction of advances from the
   monthly payroll. One approved after the run was calculated is in no run: the
   approval of the run does not look, an approved run is not recalculated, and the
   next month selects by `requested_at`. An advance approved before the calculation
   went through its employee is always deducted (`RepaidIfInTime`).
4. `setup_once`: `docs/API_ENDPOINTS.md:78` says of `/setup` "Public, once only".
   The organisations are counted (184) before the transaction and without a lock:
   two callers with different addresses both count none and both create one.
   With the same address the second fails (`OneOwnerPerEmail`). A count while no
   other set-up is under way would be enough (`SetupOnceIfCountedAlone`).

Each of the four theorems named here adds one assumption about the steps, which the
code does not establish, and proves from it what the run refutes (the first of
them: of every answer 500, at the time it is given). Requests that come one after
the other, and advances decided before the calculation, meet the assumptions.

Four properties hold in a weaker form than a reader of the documents may expect,
and say exactly how much is true:

- `ExclusiveUnlessLost`: the advisory lock avoids concurrent migrations
  (`README.md:398`, `docs/CHANGELOG.md:84`, `docs/V5_3_OPTIMIZATION.md:49`) unless the
  connection that took it is closed meanwhile. Then two instances migrate at
  once, and the primary key of `schema_migrations` still keeps the files in order
  and recorded once (`MigratedOnceInOrder`).
- `MissedOnlyIfOvertaken`: write actions invalidate (`docs/ARCHITECTURE.md:72`), but
  a report read before a write and stored after its invalidation is served until
  it expires. `BoundedAge` bounds how late it is.
- `PaysWhatWasDecided`: a leave or overtime request that is decided again after a
  calculation began is in no way reflected in the run, not even in an approved
  one.
- `PaidTwiceOnlyByRace`: two requests for a primary account of one employee that
  run at the same time may both stay primary, and a batch then has two transfers
  for that employee.

## 5. Proofs

The theorems hold for all finite or infinite sets of requests, employees, tokens
and calculations (`RateLimiter` needs finitely many requests, because it counts
them), and for all values of the other constants that satisfy the named
assumptions. Nowhere else is a set assumed finite: what is counted or summed was
inserted by a step, one at a time, and the invariants say that it is finite.

| Assumptions | Say |
|---|---|
| `NoneAssumption`, `NoRowAssumption`, `NoSlipAssumption`, `NoAccountAssumption` | `None`, the missing row, is none of the other values |
| `InputsAssumption`, `TimeAssumption`, `MoneyAssumption`, `SlipAssumption`, `KeyAssumption`, `LastAssumption`, `StopAssumption` | inputs are well formed, times and amounts are natural numbers; amounts asked for are positive, as the handlers require |
| `ScoreAssumption` | the block score is at least 1, which `Config.Validate` enforces |
| `EarningsAssumption` | the set `Earnings` of `Payroll` leaves out nothing that `TakeHome` can give: `PayInputs` only refines what `Payroll` leaves open |
| `RefillAssumption` | a bucket that is removed would have been full again, `RPM * (Keep - MaxDelay) >= Burst * Minute` (10 minutes at 240 per minute against a burst of 80 in the default configuration; `Config.Validate` does not enforce it) |

`AttendanceProofs`. None of the invariants is inductive as it stands, since what
a request has pending is in its `pc`.
- `TypeInv` adds `LockInv` to `TypeOK`: a transaction about to close a session
  still finds it open and is the only one to hold it. It gives `TypeCorrect` and
  `FinishedShiftsAreFrozen`.
- On top of it, an invariant of sessions and pending inserts: at most one request
  per employee has an open session pending, and then none is stored. It gives
  `OneOpenSessionHolds` and `PunchesPairUpHolds`; the same shape for device keys
  gives `DeviceIdempotentHolds`.
- `ReplayNoticedHolds` needs that the token lock covers the span from the reading
  of the history to the commit, so that no punch with the same token and a
  date within the window can be committed in it unseen.
- `ScansCountedHolds` needs that the requests recorded or blocked are finitely
  many, that none of them is recorded twice, and that a body does not change
  after it was received.
- `NoWaitCycle`: whoever a request waits for is at a later level of the lock order,
  token or device event before session. So some running request waits for nobody,
  `SomeoneGoesOn`.
- `ResendInv`: a request past the SELECT of its device event is the only copy of it,
  if no two pass it at a time. It gives `NoErrorIfResentAlone`.
- `ImplementsLedger`: the open session of an employee is the shift in progress,
  the closed ones are the finished shifts; `Commit` is a `ClockIn` or a
  `ClockOut`, every other step a stutter. `LedgerUsesPunchesOnce` is proved of the
  ledger alone, that no punch belongs to two shifts, and `PunchesUsedOnce` follows
  for the handlers without looking at them.

`Sums`. What `SumFunction` of the community modules gives, for finite sets of any
size: the sum of none is 0, one element more adds its value, more or larger values
make a sum no smaller. The library's induction theorems take an operator as a
parameter, which the provers cannot instantiate. The lemmas are proved from a minimal
counterexample instead, whose existence the library states without one: the table of
partial sums that defines the fold is shown to exist and to be unique, and a fact
about sums fails first for some subset that has no smaller one.

`PayrollProofs`.
- `Inv`: a run which is being replaced is a draft and is being replaced by one
  calculation, one calculation at a time has inserted its run, and there is
  no run then but the one it replaces. It gives `OneRunPerMonthHolds`, and
  `ImplementsPayMonth`: `Commit` is `Calculate`, `Approve` is `Approve`, every other
  step a stutter; `ApprovedIsFinal` says the same of the tables themselves. It also
  gives `NoWaitCycle`, what `NeverStuck` says of the locks: whoever a calculation
  waits for is further on, and of two that are about to insert only the one that
  replaces the run can be waited for. `SomeoneGoesOn` says the rest of `NeverStuck`
  without ENABLED: some calculation under way has all that its next statement
  waits for.
- `Books`: after every turn of the loop, long before anything is committed, the
  totals are the sums over the employees it has been through, and what it deducted
  is at most what is approved. The second is stable because `ReviewAdvance` only
  decides what is pending, and because what an advance asks for is fixed before
  its row exists. It gives `TypeCorrect`, `RunAddsUpHolds` and
  `OnlyApprovedDeductedHolds`.
- `CapInv` and `RepaidInv`, on top of them, are for the theorems named in section 4:
  what an employee owes stays within the cap together with what is about to be
  inserted, and an item of a run deducts all that is approved.

`PayslipProofs`. `BracketsAreSlices` for every gross pay, and `DiligencePays` for any
two payslips of which one is better in every respect, by the case analysis of the
brackets; `OvertimePays` is what `SlicesMeet` needs of it. An employee with overtime
may still end up with one cent less: tax and contribution are rounded separately,
so `OvertimePays` and `SlicesMeet` allow that cent.

`PayDayProofs`. The invariant `PayDayInv` keeps `Inv` and `Books` and adds:
- `InputInv`: what a calculation has read for an employee is what is approved now,
  as long as no request of the employee moved since the calculation began
  (`DecidedInv`), also between the SELECTs; and every sum it can read is of
  finitely many of the amounts asked for, which is why `Earnings` has its take-home pay.
- `BankInv`. `MetInv`: two account requests of an employee that are under way at the
  same time have met. `PrimaryInv`: every primary account has a request that made
  it, which has met whoever is still going to make another one primary without
  demoting this, and whoever made the other primary ones. A batch being filled
  has the total of its approved run, `BatchInv`, and lines at the net pay of its
  items, `LinesInv`; lines keep the accounts they were made from, `TwiceInv`.

- `NetInv`: the net pay of an item is what advances leave of the take-home pay of what
  was read. With `InputInv`, `LinesInv` and the history of a run it carries what was
  approved all the way to the line that is transferred: `PaidAsDecidedHolds`.

Together they give the seven properties of `payday`. `IsPayrollHolds` is the
refinement, so `PayDayKeepsTheBooks` gets the history and the totals from
`PayrollProofs` without another proof.

`DashboardProofs`. The hard part of the invariant is what an entry in the cache
may not know. `AgeInv`: an entry expires at most TTL and one wait after the time
before which it knows every commit; a report about to store has read no earlier
than it asked. `MissInv`: an entry misses only writes whose invalidation happened
while the result was held, and a report about to store misses only writes that
were invalidated since it asked. `ChatInv`: the missing chat is cached only for
`Floor` after a failure. `SlotInv`: the jobs that run are finitely many and as many
as the slots taken.

`RateLimiterProofs`. The invariant is a potential: for every client and every
earlier time s, the cost of the requests admitted since s plus what the bucket
holds is at most the burst plus what accrued from s to the time of the bucket; a
client without bucket has paid for what it got by now. `RateIsKept` follows
because no bucket is ahead of the clock. The second half, `MissingInv`, bounds
from below what the bucket holds and gives `RefusedOnlyAfterBurstHolds`. The map has
no fixed bound. `MapBoundedHolds` says that it has at most `MapLimit` buckets, or else
only those of clients who had an answer within Keep + MaxDelay of the latest: a
bucket is dated by a request of its client, and every request cleans up (`UsedInv`).

`StartupProofs`. The invariant has three parts. Files: those before the one an
instance is at are committed, and a transaction whose row is pending is about the
first one that is not, so that only one is pending; this gives
`MigratedOnceInOrderHolds` and `ServesOnlyMigratedHolds` without the lock. Lock: an
instance that migrates has it unless a session was closed under a migration
(`ExclusiveUnlessLostHolds`). Setup: the next statement of a request tells what
its transaction has written, and two owners of one address do not exist even
pending (`OrgsCompleteHolds`, `OneOwnerPerEmailHolds`). `TypeCorrect` includes that
no organisation exists on an incomplete schema. `HolderInv`, that the holder of
the lock is an instance that migrates, unlocks or serves, gives `NoWaitCycle` and
`SomeoneGoesOn`.

Only model-checked: `NeverStuck`, which uses ENABLED, and the liveness properties
`EveryRequestAnswered` and `EveryInstanceServes`. Of all three the safety half is
proved in a theorem `SomeoneGoesOn`: somebody always waits for nobody. That the
next statement of such a one is then enabled, and that the fairness assumed leads
to the end, stays with TLC. The properties of the four runs that expect a violation
do not hold. Every other property of every run is a theorem.

## 6. Not modelled, and the plan

What is modelled follows the order of its importance: attendance, payroll and
advances, the limiter; then the month around the payroll, the reports and jobs
beside the handlers, and the life of a deployment.

What could still be added: two months next to each other, so that an advance
requested in one and approved in the next is in the model and not only in the
argument of finding 3; the retry of a request for a transfer batch, which creates a
second one (2633) and which no document forbids.

Not modelled:

- Login, tokens and the role check. A request reads a user or verifies a
  signature and keeps nothing; a token is a claim that lives 14 days and is
  not checked against `users.active` on the mobile routes.
- Departments, shifts, schedules, customers, KPIs: single statements on a table of
  their own, without a rule that relates two rows.
- Issuing and listing QR tokens, branches and the geofence: `Attendance` has the
  tokens as the punches use them; issuing one is a single INSERT.
- Salaries in KHR, late and overtime minutes from a shift, distances: arithmetic
  without state; a unit test reaches it.
- `putPayrollRules`: rules are constants. It accepts 0 hours a day, by which
  `calculatePayroll` then divides.
- Exports and lists, which only read; the parsing of the configuration; CORS,
  headers, SQL text, password hashing, token signatures; the network behind
  Telegram, of which only the duration and the end matter.

## 7. Running

    tlc -workers 2 -config MCAttendance.cfg MCAttendance.tla
    tlapm AttendanceProofs.tla

The four attendance runs, `payday`, `dashboard` and `startup` take one to three
minutes each, the others seconds; the proofs take about five minutes.
