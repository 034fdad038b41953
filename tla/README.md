# xDesk backend: TLA+ models, model-checking runs and proofs

The repository is the Django backend of an HR product ("xDesk", package `pTracker`): attendance, leave, tickets,
timesheets, finance, hiring and a dozen smaller modules over one MySQL database, and a stand-alone Python agent that
carries punches from biometric devices to it. Attendance V2 is an engine that derives every employee's day from events
that arrive late, twice, out of order and from several sources at once, and whose results are rebuilt "at any time".
Most other modules are forms over rows; the ones modelled here are those whose rows must agree with each other although
several calls write them: leave, tickets, the tax assessment and the end of an employment.

## Inventory

| Component | State it keeps | Operations | What makes it correct |
|---|---|---|---|
| Punch ingestion (`ingestion_biz.py`) | `attv2_raw_punch`, `attv2_event` | one batch: look up, store or link each punch, process, mark, reply | ledger and events agree; an acknowledged punch is stored |
| Processing engine (`processing_biz.py`) | `attv2_daily_attendance`, sessions, `attendance_date` of events | plan, date the events, rebuild days under a row lock | a day's figures are those of its events; history keeps its rules |
| Day plan (`day_plan_biz.py`) | none (reads assignments, schedules, holidays, leave) | shift, windows, work date of a punch | work dates advance with time |
| Day rules (`pair_events`, `summarize`) | none | pairing, figures, status | no punch lost or used twice; no work out of nothing |
| Corrections (`correction_biz.py`) | the same tables | add, void, reprocess | the affected dates are rebuilt |
| Self check-in (`checkin_biz.py`) | the same tables | check in / out | one transaction, or nothing |
| Nightly job (`daily_job_biz.py`, celery beat 23:30) | none | reprocess yesterday | leaves a final row, repairs what requests gave up |
| Shifts and assignments (`shift_biz.py`) | `attv2_shift`, `attv2_shift_assignment` | create (splits), end, delete, (de)activate | histories do not overlap; only asked-for dates move |
| Collector agent (`collectors/attendance_agent`) | in memory: buffer, watermark | poll, send, retry, restart | nothing falls between device and ledger |
| Leave (`api/leave`) | requests, leave days, quotas, compensatory offs | request, edit, approve, reject, cancel, debit, credit | request and days agree; a balance is overdrawn for a reason only |
| Tickets (`api/ticket`) | headers, history, logged time, branches in GitLab | create, update, log time | a forest whose parents are not ahead; history, hours and branches follow |
| Tax assessment (`api/finance/tax_biz.py`) | periods, batches, TDS rows, declarations, claims | open, add, remove; declare, claim, judge | claims within declarations within limits; nothing orphaned |
| Offboarding (`api/offboard`, a Celery task, a beat job) | requests, exit forms, access, timesheets, a queue | resign, decide, terminate, sign, archive | access ends for a reason, once and surely; nothing saved is lost |
| Tokens, challenges, pending logins | cache entries | issue, consume, count, revoke | single use, bounded attempts |
| Company documents | rows and files | store, replace, delete | row and file agree |
| Everything else | rows | forms, reports, mails | not modelled; reasons in `PROJECT.json` |

How they interact: the collector posts batches to ingestion, which calls the engine in the same request; corrections,
self check-in and the nightly job call the engine too. The engine reads the shift assignments through the day plan.
Leave, tickets, tax and offboarding do not call each other; the task that ends an employment archives timesheets and
takes away access. All share the database only. There is no request-wide transaction (`ATOMIC_REQUESTS` is unset;
isolation is Django's default READ COMMITTED): outside `transaction.atomic()` each statement commits on its own,
requests of several workers interleave between statements, and a request may die between two of them. What is hard is
therefore: reads used after somebody else's write, planners older than the lock they are used under, days owed when a
request dies, rows saved whole after a stale read, messages lost or delivered late, and the arithmetic of windows
around midnight. The list, at its lines, is `hazards` in `PROJECT.json`.

## Modules

| Module | Models | Checked by | Proved in |
|---|---|---|---|
| `DayPlan` | windows and `work_date_for` (no state) | `DayRules` | `DaySummaryProofs` |
| `AttendanceEngine` (extends `DayPlan`) | ingestion, corrections, check-in, nightly job and the engine under them, for one employee | `Engine*` | `AttendanceEngineProofs` |
| `DaySummary` (extends `DayPlan`) | `pair_events`, `summarize`, the life of one daily row | `Day*` | `DaySummaryProofs` |
| `ShiftAssignments` | `ShiftBL` over the assignments of one employee's targets, `resolve_shift` | `Shift*` | `ShiftAssignmentsProofs` |
| `Collector` | the agent, the device log and the server's ledger | `Collector*` | `CollectorProofs` |
| `PunchLedger` | what a device is promised about its punches (abstract); `Collector` implements it | `CollectorDelivery` | `CollectorProofs` |
| `Leave` | leave of one employee in one period: `LeaveBL`, `LeaveHelperBL`, `CompOffBL`, `LeaveBulkBL` | `Leave*` | `LeaveProofs` |
| `Tickets` | the tickets of one project: `TicketBL`, its validators, GitLab | `TicketsTree` | `TicketsProofs` |
| `TaxClaims` | the assessment of one employee in one year: `TaxBL` over `TaxDA` | `TaxYear` | `TaxClaimsProofs` |
| `Offboarding` | how employees leave: `OffBoardBL`, `offboard_final_process`, `terminate_employee_check` | `Leaving` | `OffboardingProofs` |

The `MC*` modules only give constants their values. Mutated operators, marked "Mutant" and defined before the
operator they stand in for, are plausible bugs that each checked property has been seen to catch.

### AttendanceEngine

`raw`, `event`, `date`, `rows`, `snap`, `holds` are the tables (`holds[d]` the events the sessions of day `d` were
computed from). A request is the record `req[r]` of worker `r`: what the Python function holds in local variables
(`known`, `new`, `linked`, `plan`, `seen`, `days`) and the statement it is at. Each action is one statement or one
`transaction.atomic()` block, at the moment it commits:

* `PostBatch`, `LookUp`, `ResendUnresolved`/`SkipKnown`/`StorePunch`, `EndStore`, `PlanIngest`, `SetDate`,
  `EndDates`, `FindRow`/`RowGone`/`RebuildDay`, `EndRebuild`, `MarkProcessed`, `EndMark`, `Reply` are
  `PunchIngestionBL._ingest` and `process_new_events` in order;
* `AddPunch`/`PlanAdd`/`AddAndRebuild`, `VoidEvent`/`PlanVoid`/`VoidAndRebuild`, `ReprocessRange`/`PlanReprocess`/
  `Scan` are the corrections, self check-in and reprocess; `NightlyJob` starts the same reprocess for yesterday;
* `Die` kills a request anywhere; `Register`, `EditRoster`, `NextDay` are the world.

`dropped` records the dates whose rebuild a request gave up, `acked` the punches a reply acknowledged; neither
influences any step. Nor do the histories `crossed` (days another request rebuilt with other rules while this one held
its planner), `stranded` (days an event was taken from by a request that had seen it elsewhere) and `overtaken`
(punches a batch skipped as duplicates while another request had stored them for an unknown employee). `today` is read
in `reprocess` and again in `planner`; the model reads it once, at the planner. The planner is the map of all dates
around the punches: the code loads two days of margin, which covers every date a request touches. An event can be
voided once it has a date, because clients list events by work date.

### DaySummary

Times are integers; a "minute" is several units, so that `_minutes` really cuts. `Accepted`, `Turn`, `Alternating`,
`PairEvents` are `pair_events`; `Work`, `Breaks`, `UnpaidBreak`, `Late`, `Early`, `Overtime`, `Status` are `summarize`
and `_status`; `Gross`, `Breaks` and `During` go through the sessions in their order, as its loops do. `Punch` inserts
an event of this work date, in time or late, and rebuilds the row; `Nightly` is the job.

### ShiftAssignments

Every request is a read step (`Ask...`) and a write step, because the service reads before its transaction.
`create_assignment` and `end_assignment` also lock the rows of their target (`LockTarget`); a write to a row another
transaction has locked waits (`LockedFor`). After waiting, a locking read is taken to see what the other transaction
committed. Any number of administrators create, end and delete at once, from any history that does not overlap, an
empty one included. A transaction that finds no row of its target locks nothing, and an end saves the whole row it read
before its lock: the history variable `raced` holds the targets whose history was written that way, `overtaken` the
requests to end a row that wait while another end or deletion of the same target commits. No guard reads either.
`NoOverlap` is what the code promises, `OverlapIsRaced` what it keeps. One employee is enough: rows of other targets
do not meet.

### Collector

The device writes rows whose time may lie `Late` before or `Ahead` after the moment of writing. `Fetch` is the first
half of `sync_once` (with the watermark), `Send`/`Reply` its batch loop. The server stores a batch as a whole, in part
with an error (`Fail`), or later although the agent gave up (`Timeout`, `Arrive`). `Reply` joins the server's commit
and the agent's removal of the batch: what may happen between the two is `Timeout` or `Crash` followed by `Arrive`.
`since` is the start-up watermark, kept only to say how far the running agent looks back.

`PunchLedger` is the promise behind it: only what the device wrote is stored, a row is never taken back, and it is
linked to its employee from the first delivery that finds one on. `Delivery == INSTANCE PunchLedger WITH row <- Row`
maps the device log and `attv2_raw_punch` together to how far each punch has come; `KeepsLedger` is `Delivery!Spec`.

### Leave, Tickets, TaxClaims

All three follow one scheme. A call reads and validates in an `Ask...` action and keeps what it read in `work[w]`;
each commit after that (a `transaction.atomic()` block, or a statement outside one) is an action of its own. The
validation holds what the code asks and nothing else: `AskJudge` asks nothing of a claim because `approve_claim` does
not. `Die` kills a worker anywhere; what its transaction had not committed is not written.

History variables say what a validation was worth, and no guard reads them: a worker is in `fresh` from its validation
to the next commit of anybody; `torn`, `raced`, `overlogged`, `explained` collect the rows, dates and types written after
a validation that somebody else's commit had outdated, or left half written by a killed call. The invariants then hold
for every row outside those sets. They are as strong as the code allows: what a sequential program owes is demanded of
every execution in which calls do not cross, and in those in which they do, of everything the crossing did not touch.

* `Leave`: `requests`, `leaves`, `quota`, `comps` are the four tables; amounts are counted in half days. `Valid` is
  `validate_leave_dates`, `WriteDays`/`WriteStatus` the two statements of `LeaveDA.update_leave_status`,
  `ReadCredit`/`ApproveComp` and `ReadDebit`/`SaveDebit` the read and the save of `updateLeaveQuota`, `CreditType`
  one insert of the yearly credit. `quota[t]` is a sequence because nothing keeps the table from having two rows.
* `Tickets`: `MovesFrom`, `KeepsUp`, `ChildrenAllow`, `ParentAllows`, `ParentValid`, `Below`, `MayLog` are the
  validators; `merged` is `is_cicd_merged`, which a form may set at creation; `UpdateTicket` writes header, history and
  log and calls GitLab (`Outcomes`: which of the calls it carries out) in one transaction, `UndoUpdate` is that
  transaction rolled back after GitLab was called. `NoteLog` and `SaveLog` are the two inserts of `update_log_time`.
* `TaxClaims`: `FindDeclaration`/`InsertDeclaration`/`AddToDeclaration` are `get_or_create` and the update after it;
  `RemovePeriod`, `RemoveBatches`, `RemoveTds` the three commits of `delete_tax_period`. `tds` counts how often the
  twelve rows of a year are there. `Counted` are the claims that are approved or under review, `revived` the
  declarations of which a claim that was neither was made one of them.

### Offboarding

Web workers write row by row; a Celery worker takes a message from `queue` (`Take`), which deletes it, and ends the
task in one transaction (`Finish`) or loses it (`Lose`). `Decide` stores any status over any other, `AskTerminate` asks
nothing of the employee's other requests. `Night` is the beat job in the first hours of a day. An exit form is the set
of departments that signed; `Posted` is the whole form as the browser sends it back. `EndProcess` queues the id of the
form where the task expects that of the request, as `update_exit_form` does. The last date stands for all later ones,
so a termination that takes effect on it is not followed.

## Runs

| Run | Question | Result |
|---|---|---|
| `EngineBatches` | two workers, batches sent repeatedly while the employee is being set up, a manual punch, voids and a reprocess racing them: do ledger, events and days stay consistent, and does an acknowledged punch have its event, and is every stale day owed by somebody, or given up by a request whose row went away under it? | holds |
| `EngineDays` | three days, nightly job, shift edit, refresh, one crash: does history keep its rules, and is every stored event counted in the end? | holds |
| `DayRules` | up to three punches in any order on day and night shifts and a shift still open at the nightly job, working day, holiday, half and full leave: pairing, figures, final row, work dates | holds |
| `ShiftHistory` | two administrators creating, ending and deleting at once, on targets with and without a row: what can make a history overlap, and does a request move other dates than its own? | holds |
| `ShiftRaces` | select_for_update is "used to keep a target's history non-overlapping" | violated |
| `CollectorDelivery` | late rows, half-stored batches, lost and late answers, restarts: is anything skipped, does every punch arrive, and is the promise of `PunchLedger` kept? | holds |
| `CollectorResend` | "the collector's next re-send links it" | violated |
| `LeaveCalls` | three calls of any kind by two workers, one killed: are days booked as a whole, do requests and days agree, what can overdraw a balance? | holds |
| `LeaveCredit` | "approving twice would credit the quota twice", so it must not happen: approve, reject, approve | violated |
| `TicketsTree` | two users on up to three tickets, GitLab failing, transactions undone: tree, stages, history, hours, branches | holds |
| `TaxYear` | employee and accounts at once, from an empty year and from one with a declaration and a claim: amounts, approved claims, orphans, TDS, regime | holds |
| `Leaving` | resignations, terminations, signatures, the nightly job and the task, messages lost: who loses access, and does everybody who should? | holds |

The violated runs are findings, quoted line by line in `PROJECT.json`. In short: two first assignments of a target lock
no row and overlap (`ShiftRaces`); the collector forgets punches of
employees that do not exist yet (`CollectorResend`); a compensatory off approved, rejected and approved again is credited
and booked twice (`LeaveCredit`).

### Divergences without a run

Disagreements between the code and what is written about it, met while modelling and visible in the modules, which no
run of the present set isolates:

* `processing_biz.py:299` leaves out the dates after today, so a reprocess that moves an event to or from tomorrow
  rebuilds one of the two dates; `docs/ATTENDANCE_V2_TECHNICAL.md:395-396` says both.
* `attendance_v2_daily.py:10-11` says the job runs "after even an overnight shift's punch window for that date has
  closed"; the serializer accepts an overnight shift ending at noon with twelve hours to punch out. `DayRules` has such a
  shift (`UntilNoon`), and `NightlyIsFinal` names what is provisional there: a day without a punch stays `not_started`
  and an open session `present` after the job, until somebody processes the day again. Every figure is final even so.
* `docs/ATTENDANCE_V2_TECHNICAL.md:191` says "when the response returns, the daily attendance already reflects the new
  punches": a request that dies between the store and the processing (`ingestion_biz.py:159`) leaves the resend nothing
  to process, and a 200 in front of a stale day until the nightly job. `EventuallyCounted` shows that the job mends it.
* `shift_biz.py:246`: `end_assignment` saves every column of a row it read before its lock, `is_active` included: of two
  administrators, one ending and one deleting and replacing an assignment, it brings the deleted row back beside the new
  one. `OverlapIsRaced` exempts exactly that (`raced`), and a longer trace of `ShiftRaces` shows it. It also extends an
  assignment whose shift is inactive, which `docs/ATTENDANCE_V2_TECHNICAL.md:545` rules out.
* `ticket_biz.py:1559-1566` answers "This ticket already merged. no changes allowed" to a change of the repository of a
  ticket that is flagged as merged (which its creation may set) and goes on: the header is written, no step is taken in
  GitLab, and a ticket moved out of CI/CD keeps its branch. `Deletes`, `Makes` and `Merges` ask nothing for such a
  ticket, `TicketsTree` raises one, and `BranchTracked` promises of it only that it never has a second branch.
* `ticket_biz.py:1596-1599` sets an error for a CI/CD ticket that is completed without a merge, and goes on:
  `AskUpdate` has no such guard.
* `off_board_biz.py:444` passes the id of the exit form to a task that takes the id of the request
  (`offboarding_final_process.py:27`): the request of somebody else is closed. `CompletedIsRelieved` says what that can
  do: the request then stands for the employee of the form, who has left. `OneResignation` exempts a request that was
  opened again this way.
* `off_board_biz.py:139-147` stores any status HR posts, so also Completed (6) for an employee who keeps access;
  `OFF_BOARD_ACTION_LOG` has no text for 6, so the answer is an error after the commit. `declared` holds the requests
  completed like that. `check_termination_process` (`off_board_biz.py:859`), "Termination Process Already in Progress", is
  an endpoint of its own, which `terminate_employee` does not call: an employee may have several terminations.
* `tax_biz.py:1059,1107`: an amendment of a declaration is measured against the maximum of the category the form names
  (`cat_id`), which is never compared with that of the declaration, although the answer speaks of "the maximum limit for
  the specified category"; one edit can put a declaration over its own maximum. `AskAmend` takes any category,
  `misnamed` the declarations this happened to, and `DeclaredWithinLimit` holds those within some category's maximum.
  `create_employee_claim` (`tax_biz.py:1373-1378`) does the same with the maximum of a claim, and `approve_claim`
  (`tax_biz.py:151,165`) writes whatever status it is sent (`Other` in the model), which then counts in
  `update_employee_claim` (all that is not rejected) and not in `get_claimed_amount_by_declaration`.
* `tax_biz.py:528` tests for a duplicate assessment period and does not use the answer; `tax_da.py:667` sets the
  regime of all years of an employee.

### Bounds, and why they are enough

* `EngineBatches`: two workers, because every race named in the hazards has two parties (no request dies and no shift
  is edited there: those are the questions of `EngineDays`, and of the theorems); two device punches, of which
  one falls on the day before by the dawn shift, and a manual one. Workers are symmetric.
* `EngineDays`: one worker that serves requests and the job in turn, three followed days: a day, its evening job and
  the day after, with one shift edit before or after any of them. Punch times are chosen so that the night shift
  moves one punch to the day before, and (in the other runs) the dawn shift one to the day after.
* `DayRules`: three punches make every pairing (open, closed, a second IN, OUT without IN, double punch) with one to
  disturb it; instants are the boundaries of the windows, breaks and grace periods. Of the three shifts two close their
  window before the nightly job and one (`UntilNoon`) does not.
* `ShiftHistory`: dates before, in and after the temporary assignment, and targets with a row or none; five requests
  about assignments (`MaxRequests`) split a history, cross an end with a split, and bring a deleted row back beside a
  new one. `ShiftRaces` needs two of them. `CollectorDelivery`: two batches, two faults, a clock long enough for a
  punch to grow too old and for a restart to look past one.
* `LeaveCalls`, `TicketsTree`, `TaxYear`, `Leaving`: two workers, again because a race has two parties, and three or
  four calls: one to make a row and two that cross on it; `TicketsTree`, `TaxYear` and `Leaving` also start with rows
  that are there, so that the calls go further. One call dies or is rolled back. Leave has two types (one of them may
  be unpaid leave without a quota), four dates with a weekly off inside the range, and half days; tickets one under
  CI/CD and one not, and a status of every kind; tax two categories with different limits; offboarding two employees
  (one may be hit by another's id), one form and the departments HR and another, a first date and one that stands for
  all later. `LeaveCredit` needs four calls by one worker.
* Deadlock is not checked where a model really stops: when its clock, calls or inputs run out. The collector
  never stops.

### Fairness

`AttendanceEngine`: a worker that has a request goes on with it (weak fairness of its steps; web workers are processes
that run until they return), celery beat starts the job every evening (strong fairness, since a busy worker makes it
wait), and days pass. Nobody is assumed to send or correct anything. `Collector`: `run_forever` loops until it is
stopped, a process that died is started again (which its operator has to see to: the repository ships no service unit,
only the restart behaviour its README describes), and a request that neither network nor server fails is answered;
failures are bounded by `MaxFaults`, as no delivery is possible under endless ones. `Offboarding`: beat runs the check
every night, and an offboarding worker is up, takes each message and ends each task (weak fairness of `Night`, of
taking each particular message, of `Finish`). Workers may die; nobody is assumed to sign, decide or call anything.

## Proofs

| Theorem | What it says, for all constants |
|---|---|
| `AttendanceEngineProofs!TypeCorrect` | every table and every request's memory keeps its type; no request leaves the dates around its punches |
| `AttendanceEngineProofs!LedgerAlwaysConsistent` | raw ledger and events agree in every interleaving |
| `AttendanceEngineProofs!LedgerInductive` | the invariant behind the next two: what each request remembers of punches and events is sound |
| `AttendanceEngineProofs!AcknowledgedIsStored` | what a reply acknowledged is in the ledger |
| `AttendanceEngineProofs!AcknowledgedHasEvent` | what a reply acknowledged has its event, unless overtaken |
| `AttendanceEngineProofs!HistoryStays` | a past day keeps its rules through roster edits, but for a refresh, an early planner or a crossing |
| `AttendanceEngineProofs!StaleAlwaysExplained` | a row that does not match the events of its day is owed, dropped, or (after edits) stranded |
| `DaySummaryProofs!WorkDateMonotone` | a later punch never belongs to an earlier work date |
| `DaySummaryProofs!WorkDatesAlwaysAdvance` | the same along every behaviour of the daily row |
| `DaySummaryProofs!PunchesUsedOnce` | the ends of the sessions are the accepted punches in order, each once, or the first and the last |
| `DaySummaryProofs!AlwaysWithinPresence` | work and breaks together fit between the first punch and the last |
| `DaySummaryProofs!PunctualNeverLate` | who punched IN within the grace period is not late |
| `DaySummaryProofs!NightlyRowStands` | the row of the nightly job is final; only where the window outlasts the job may the status be provisional |
| `CollectorProofs!TypeCorrect` | types, and no punch queued twice |
| `CollectorProofs!ReachAlwaysKept` | no punch falls between device, buffer and ledger |
| `CollectorProofs!CollectorKeepsLedger` | the collector with server and network implements `PunchLedger` |
| `ShiftAssignmentsProofs!TypeCorrect` | types; no row outside the dates followed |
| `ShiftAssignmentsProofs!OverlapsAreRaced` | two assignments of a target are in force on a date only where a transaction held no row of it |
| `ShiftAssignmentsProofs!OnlyAskedDatesChange` | a request moves the shift of the dates it is about only, unless overtaken or its target raced |
| `LeaveProofs!TypeCorrect` | types; calls are about rows that exist |
| `LeaveProofs!DaysAreWhole` | the leave rows of a request are none, or exactly its days |
| `LeaveProofs!RequestsSettle` | request and days agree, but for calls that crossed or died half way |
| `LeaveProofs!BalancesExplained` | a balance is below zero only where something other than a sound booking lowered it |
| `TicketsProofs!TypeCorrect` | types; parents and calls are about tickets that exist |
| `TicketsProofs!HistoryCorrect` | the history of a ticket ends at its status, unless raced |
| `TicketsProofs!HoursWithinDay` | the limit of a date holds, but for calls that validated at once |
| `TicketsProofs!BranchesTracked` | branches follow the repository of their ticket, or are the only one of a ticket raised as merged |
| `TicketsProofs!ParentsNotAhead` | no parent is ahead of its sub-tickets, unless raced |
| `TicketsProofs!NeverCircular` | parents form no circle, unless one of its tickets was raced |
| `TaxClaimsProofs!TypeCorrect` | types; claims, declarations, batches and calls are about rows that exist |
| `TaxClaimsProofs!FreshCorrect` | what a call validated still holds when it writes, unless another committed: the invariant behind the rest |
| `TaxClaimsProofs!TdsAlwaysFollows` | TDS rows are there once with a batch and not without, with the exceptions the property names |
| `TaxClaimsProofs!DeclaredAlwaysWithinLimit` | the declarations of a category stay within its maximum, or that of another an amendment named, unless raced |
| `TaxClaimsProofs!NothingEverOrphaned` | no claim without its declaration, no declaration without period and batch, unless raced |
| `TaxClaimsProofs!ClaimsAlwaysWithin` | claims approved or under review stay within what was declared, unless raced or revived |
| `TaxClaimsProofs!ApprovedAlwaysKept` | an approved claim is only taken away by a call of accounts about it, or by a call validated before |
| `TaxClaimsProofs!RegimeAlwaysKept` | the regime is not cleared while a declaration is left, with the exceptions the property names |
| `OffboardingProofs!TypeCorrect` | types; calls, messages and tasks are about rows that exist |
| `OffboardingProofs!SignaturesStay` | a signature is lost only to somebody who opened the form before it |
| `OffboardingProofs!CompletedAreRelieved` | a completed request stands for somebody who has left, its employee or that of the form with its id, unless HR wrote it down |
| `OffboardingProofs!RelievedWithGrounds` | nobody loses access without a due termination, HR's signature or an older message |
| `OffboardingProofs!ResignationsAreSingle` | nobody has two resignations open or done, unless calls crossed or a closed one was opened again |
| `OffboardingProofs!SheetsAlwaysKept` | every saved timesheet is in the table or in exactly one archive copy, with the exceptions the property names |

Between them they state every safety and every action property the passing runs check.

Assumptions are the named `ASSUME`s of the modules: disjoint kinds of punches within the followed dates, shift
assignments that do not overlap at first (`InitialAssumption`), shift times
within the day and windows that only widen a shift, grace periods and breaks that are not negative (`ShiftsAssumption`,
`FiguresAssumption`: what `ShiftSerializer` accepts), a value that is no event (`NoEventAssumption`), a tax year that
starts in order (`StartsAssumption`: an empty one, or what sequential calls leave), and for the collector
`LagAssumption`: delay and lead of a row together within the overlap, and the lead within `MAX_FUTURE_SKEW_MINUTES`.
No theorem has a hypothesis of its own.

*The ledger.* `LedgerConsistent` is not inductive: it says nothing of what requests remember. `LedgerInv` adds, for
every request, that what it knows of a raw punch is still true or has only moved forward, that the events it calls new
exist, and that a request marks punches only when it has dated them. Each step is then checked against the memory of
its own request and, since tables only move forward, of all the others.

*Acknowledged punches.* `EventInv` says of every batch under way that the punches it has passed have an event, are in
its errors or are overtaken, and the rest is that events are never taken back.

*History and stale days.* A request rebuilds with a planner it read earlier. `PlanInv`: on every past date it may yet
rebuild, the planner still agrees with the stored rules, unless another request changed them since (`crossed`).
`StaleIsExplained` comes in two parts. `OrderlyInv` says what a request may have in its memory at each step, so that one
that moves or voids an event has both dates among those it will rebuild, also if two requests meet on the same event:
unless they disagree about where it belongs. `SettledInv` rules that out while no assignment has been edited: all
planners in flight, all stored rules and all work dates agree with the roster.

*The collector.* `ReachKept` is not inductive: a new row might appear behind the watermark. `IInv` adds that no row
is further ahead of the clock than `Ahead` and that the watermark, unless it never moved, is at least `Overlap - Ahead`
behind the clock. A row written now is at most `Late` old, and `Late + Ahead <= Overlap`. A batch that leaves the
buffer was stored, except for punches the server turned away, which by `RowsNotAhead` can only be too old.

*Work dates.* The windows of neighbouring dates may overlap or leave gaps; the proof orders midnights, then shows for
each pair of the three answers `work_date_for` may give that an earlier instant cannot get the later one.

*The day rules.* Pairing and figures are folds over sequences. The folds are unrolled over the prefixes of a sequence
(`FoldsExist`, `Unroll` and one `...Steps` lemma for each), and the induction is done by the least length at which a
claim fails (`Least`, from the well-foundedness of `<`). `LogInv` says that the log is in the order of time, `RowInv`
that the row is the summary of the log at some instant; with them each property is one of pure functions. After every
prefix, the punches in closed sessions followed by the open one are the accepted punches so far (`PunchesUsedOnce`);
sessions follow one another (`Tidy`), so that each adds to work and breaks no more than it adds to the time between the
ends, cutting to minutes included (`AlwaysWithinPresence`); and the first session begins no later than any IN punch
(`PunctualNeverLate`). `FinalInv` says that the row is the summary of the log at an instant no earlier than the
job: from then on the date is over, and what is left to happen, the closing of a window that outlasts the job, changes
the status only (`NightlyRowStands`).

*The histories.* `OverlapIsRaced` is not inductive: it says nothing of what requests hold and have read. `RowsHeld` adds
that the rows a transaction has locked are in force still, and all of its target, unless it found none or the target is
raced; `Exclusive` that no row is held twice; and `Read` that what an end or a deletion has read of its row, without a
lock, is still so except for its last date and whether it is in force. `SplitShape` describes the table after a split,
`SplitKeeps` shows that it does not overlap. For `ChangesAreAsked` the last date that may be stale needs `CutsFollowed`:
where a row has been cut since an end that is not overtaken read it, another begins on the next date, so that an end
which would undo the cut is refused. On a history without overlaps the latest of the matching assignments is the only
one (`TidySame`); a target the request is not about may overlap, but keeps its rows, hence its latest one (`OthersSame`).

*Leave.* A request is changed by two statements, the days first. `SettledInv` says of every call between them that the
days already are as the request will make them, and that no other call that has not been crossed is half way through
the same request; `DaysWhole` is inductive with the type invariant. For the balances
`BalanceInv` says that each type not `explained` covers the cost of its days, and that what a worker in `fresh` found
of the balance is still so; the sum over the days becomes two cardinalities (`CostIsSum`), one per length of a day, about
which the library's theorems speak.

*Tickets.* What a validation asked is not true for ever; `FreshInv` says that it still is for every worker in `fresh`,
whose validation nobody's commit has outdated. Each property then holds after a write of a fresh worker by what he
validated (`StillValid`), and a write of any other puts the ticket or date among those exempted. `NoCycle` looks for
the raced ticket below the circle, from where an update may move it; the inductive form (`Grounded`) is that every set
of tickets which holds the parent of each of its members has a raced member.

*Tax.* `FreshInv` is the same for the assessment. `TdsInv` follows a deletion through its three commits: what the next
of them will find, if nothing outdates the call. `Separate`, `ClaimHasDecl`, `DeclHasBatch` and the claims of a
declaration (`Within`) are each kept by what a fresh call validated; the first part of the module proves of the sum of
amounts what these need, by induction over the size of a set.

*Leaving.* `SignatureStays` and `RelievedOnGrounds` speak of single steps, and follow from what is true before them:
what a call or a task remembers. For `CompletedIsRelieved` that is `MessagesAddressed`: the id of every message,
waiting in the queue or taken by a task, is that of a request, or of an exit form, of the employee it names, whose a
request or a form is never changes, and nobody gets access back; `CompletedBy` leaves only HR's decision and the task.
For `RelievedOnGrounds` it is `MessagesGrounded`: a message was sent for an exit form, or for a termination that was
due when it was sent, unless HR has revoked it since. Both are inductive with the type invariant. `ResignInv` adds to
`OneResignation` that the answer a fresh call read is still true, and `SheetsInv` to `SheetsKept` that what a task has
read to archive is in the table until it archives it, and that copies are of timesheets that were saved.

*The refinement.* Each step of the collector leaves `Row` as it is, writes one punch, or delivers a set of punches, the
valid ones of a batch of which none is linked already: the type invariant is all it needs.

Only model-checked: liveness (`EventuallyCounted`, `EveryPunchDelivered`, `TerminationTakesEffect`), which is out of
the prover's reach (fairness, ENABLED), and the three properties the code violates. A theorem is about the model with
every value of its constants, the bounds on calls, faults and edits included; what the model leaves out is left out of
the theorems too.

## Not modelled

In the modelled components: the configuration screens, authentication and queries of Attendance V2; heartbeats and sync
logs; the loop of the nightly job over members; the duplicate test of self check-in; shift edits with two workers at
once (what these can do is described with their hazards). Of leave: types and rules, delegation, reports, mail and push
messages. Of tickets: watchers, attachments, comments, the dates and estimates a status asks for, mail. Of the tax
assessment: deadlines, which only refuse calls, parties, rent details, proofs, chats, the computation of tax, other
years and two accountants adding people at once. Of offboarding: the exit interview, relieving documents, the clean-up
of inactive employees, logs and mail.

The other packages are listed in `PROJECT.json` with the reason for each. They are forms over single rows, report
queries, mails and calls to external systems: a model of them would restate each assignment.

## Plan

1. **Done**: the modules and runs above, the refinement of `PunchLedger`, a theorem for every safety and action
   property of the passing runs.
2. **Abstract specifications**: `PunchLedger` also under the ingestion part of `AttendanceEngine`; a history mapping
   dates to shifts, changed only on asked-for dates, which `ShiftAssignments` with one administrator should implement.
   Each with its refinement proved step by step.
3. **Theorems**: the conditions under which the exceptions are empty, as corollaries: with one worker nothing is
   raced, torn or crossed.
4. **Next modules**: timesheets (submit, approve, reject, resubmit, and the archive `Offboarding` makes of them), then
   rewards and interviews, whose states are set by several roles.
