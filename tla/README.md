# A verification model of the language learning marketplace

The backend of this repository is a modular monolith over PostgreSQL. Its
correctness lives in transactions: each GraphQL mutation and each worker step
takes an advisory lock on a User and row locks on what it changes, reads, decides
and writes. Around them are the things no transaction covers: a request is
authenticated before one, a worker's pass is several, an email leaves between two,
a rebuild replaces everything, and a browser hears late what became of its call.
The TLA+ here models both, checks them with TLC on small instances, and proves the
most important properties with TLAPS for every instance.

## Inventory

| Part | State it keeps | Operations | What makes it correct |
|---|---|---|---|
| Class Sessions (`class-session/`) | state, Teacher, Seat Capacity, occupied seats | publish, change capacity, report absence, substitute, cancel | the seat counter matches the Bookings; one Teacher, qualified and free; cancellation ends everything |
| Bookings (`booking/`) | state, reason, refund, grace, link to the Booking it replaces | book, cancel, reschedule | one credit per chain of reschedules, refunded at most once; no overlap |
| Schedule Commitments | active (session, User, role) rows | written by publication, booking, substitution, every ending | exactly those of active Bookings and assigned Teachers; never two that overlap |
| Class Credits (`class-credit/`) | balance, append-only ledger | deduct, refund, adjust, grant | the balance is the sum of the ledger and never negative |
| Waitlist (`waitlist/`) | entries in join order, promotion requests with versions | join, withdraw, promote, expire, close | no freed seat goes unannounced, no promotion is lost, entries end |
| Reminders | outcome per (session, User, role) | open, suppress, deliver | open exactly while a commitment is ahead and not due |
| Absences | requests and their sessions | report, resolve | one unresolved disruption per session, consistent with the session |
| User access (`authorization/`) | access status, Role Assignments, remembered place per role | suspend, reactivate, grant, remove, remember | cleanups leave nothing ahead; somebody administers the platform |
| Curriculum, qualifications (`curriculum/`) | Lesson Units with position, identity and retirement; qualifications | create, place, revise, retire, grant, remove | an order without gaps; identity kept once published; no future session without a qualified Teacher |
| Teacher availability | effective-dated ranges, exceptions, local times | add, end, add exception, take back | ranges of one weekday apart; no session inside an exception; local times kept across an offset change |
| Attendance (`attendance/`) | outcomes, reviews, corrections, completions | record, correct, request a review, decide | completion follows the outcome in force; a review is decided once |
| Feedback, ratings (`feedback/`) | text, state, redactions, notices | save, submit, redact, anonymize | told once; no text outlives an anonymization |
| Subscription, Sponsorship | state, anniversaries, grant references | provider events, invitations, monthly grants | one grant per period, whatever is repeated or late; one Sponsorship at a time |
| Cohorts, Course Progress Snapshots | names, membership windows, frozen counts | create, rename, add, end; capture, revise | past attribution is fixed; counts follow corrections |
| Reports and exports (`reporting/`) | export jobs; figures are queries | request, generate, expire; compute | reports agree with one another; an ended export is final |
| Notification delivery (`notification/`) | intents, attempts, receipts, task items | claim, send, retry, compact | one email, decided once; failures stay before an Administrator |
| User anonymization | request, failures, external identity | request, delete, finalize | what failed too often is before an Administrator |
| API (`api/`) | idempotency records; budgets in memory | admit, replay, refuse | a retry takes effect once; a budget is charged to whom it concerns |
| Audit log | entries in monthly partitions | write, page, export, retain | a reader sees what they may, once, in order |
| Observability | incidents; conditions read by the watch | fold, report, clear | alerts are sparing and true |
| Rebuilds, releases (`operations/`, `.github/`) | maintenance state, rebuild rows, manifests, heartbeat | rebuild, recover, roll out, roll back | writes are open on verified data only; a bundle meets an API that accepts it |
| Workers (`worker/`) | job queue, heartbeat | each task of the crontab | a job that fails is run again and does nothing twice |
| Web client (`apps/web/`) | kept keys, pages, acting role | call, repeat, navigate | a retry is one attempt; a page offers what a handler accepts |

The parts meet in shared rows rather than in messages. Booking, waitlist promotion,
rescheduling, suspension, role removal and session cancellation all write the same
seat counter, credit account, commitments and reminders; freed seats reach the
waitlist worker through one row per session, `waitlist_promotion_requests`; what
the platform has to say reaches the delivery worker through intents; attendance
reaches the reports through completions and snapshots.

Hard behaviours, in the order of their weight:

1. what runs outside a transaction: a request is authenticated before it, and a
   worker reads its clock and its candidates before the transactions that use them;
2. cleanups that must agree with six other handlers about what a Booking holds;
3. chains of reschedules, refunds and reminders over long sequences of calls;
4. transactions of several statements that take different locks: attendance,
   snapshots, curriculum, qualifications and availability;
5. failed, stopped, overlapping or repeated worker passes, rebuilds and releases;
6. answers that come late or not at all, at the API and in the browser;
7. instants that are open at one end and closed at the other, months of unequal
   length, and local times around a change of the offset.

## Modules

| Module | Models |
|---|---|
| `Marketplace` | the pure time rules of `packages/core`; the tables of scheduling and every transaction that writes them, one action each |
| `MarketplaceProperties` | what the scheduling core promises |
| `WaitlistWorker` | a waitlist pass step by step, between other requests; refines `Marketplace` |
| `RoleAccess`, `AdministratorAccess` | requests authenticated before their transaction: Students, and administrators acting on one another |
| `Pages` | what freshly loaded pages show and offer, computed from `Marketplace`'s tables |
| `CreditGrants` | the calendar, the Users and the grant side of the credit account, shared by the next two |
| `Subscription`, `Sponsorship` | provider events and cancellation requests; invitations and the worker that expires and grants |
| `Benefits` | both together, with suspension and role changes; their properties |
| `AtomicAttendance`, `Attendance` | the abstract promise; the transactions, statement by statement, that refine it, with completions and snapshots |
| `Feedback` | Learning Feedback and Session Ratings |
| `Cohorts` | Cohort names and membership windows |
| `Curriculum`, `Teaching` | concurrent transactions on Lesson Units; publication, substitution, qualifications and exceptions over them |
| `Availability` | weekly ranges; local times around a change of the offset |
| `OneMail`, `Delivery` | the abstract promise; overlapping delivery passes, receipts, compaction |
| `ReportExport`, `Anonymization` | the two other workers whose work leaves the database |
| `Reports` | marketplace report, organization report and extracts as functions of the tables |
| `Requests`, `Admission` | idempotent mutations; resource budgets |
| `Incidents`, `Readings` | incidents and alerts; the readings that raise a condition |
| `Maintenance`, `Releases` | rebuilds against writes; rollouts, gates and served manifests |
| `AuditLog` | entries, pages, exports and retention |
| `WebClient`, `Workspace` | kept idempotency keys; acting roles and remembered places |
| `MC...` | small instances for TLC |
| `MarketplaceProofs`, `WorkerProofs`, `BenefitsProofs`, `LearningProofs`, `PlatformProofs`, `OperationsProofs` | theorems and proofs |

A variable is a table, a column of one, or the control state of something that
runs. In `Marketplace`, `bookings`, `entries` and `absences` are functions from row
numbers to records, a row number being the order of insertion; `commitments` is the
set of active rows; `balance`, `adjusted` and `ledger` are the credit account, the
sum of the adjustments in the ledger, and its booking rows. `reminders[k]` is `NONE`
where no row exists. An action is one committed transaction: its guards are the
handler's early returns (a denial writes an audit entry only, so it is no action),
and a transaction the database aborts changes nothing. Each handler there takes the
lock of the User and the row locks of what it writes first, which is why it is one
step. Where the locks differ (`Attendance`, `Curriculum`, `Teaching`, `Requests`),
a transaction is several steps: it reads what is committed when the statement runs,
and a write and its commit are one step where nothing can come between them.

`WaitlistWorker` adds the control state of `processWaitlistEntries`: its clock, the
entries still to process, the request versions it has read. `ImplementsMarketplace`
says that under it the tables still follow `Marketplace!Spec`: a pass is nothing but
atomic promotions, closings and `MarkRequestProcessed`. `Attendance` implements
`AtomicAttendance`, and `Delivery` implements `OneMail`, the same way.

Abstractions common to all: an instant is an integer and leads keep their order;
texts, identifiers and formats are members of small sets; logging and wording are
left out. Qualification and availability are constants in `Marketplace`, because no
handler there changes them, and variables in `Teaching`. Of a page, discovery
filters are left out: they narrow a list. Of the organization report and the
extracts, columns and formats are left out. A report is computed from one committed
instant. A reading of the watch is not: each of its queries sees an instant of its
own, because they run side by side on connections of their own.

## Runs

| Run | Question |
|---|---|
| `scheduling` | Do Bookings and reschedules between two overlapping sessions, and absences resolved by substitution or cancellation with a User who is Student and Teacher at once, keep seats, credit chains, commitments, reminders, disruptions and history in agreement, and do the pages offer what the handlers accept? |
| `access` | Do suspension, role changes, adjustments, capacity changes and cancellation leave nothing behind? And do the reports over attendance, corrections and Sponsorships agree with one another? |
| `worker` | Is a promotion ever lost, and is a free seat eventually offered, when passes are stale and fail? |
| `benefits` | Is every grant for a period its Subscription or Sponsorship has reached, once, whatever is late, repeated, out of order or suspended? |
| `learning` | Do attendance, Cohorts, feedback, the curriculum, assignments, schedules and local times hold their promises when their transactions overlap? |
| `platform` | Do emails, exports and anonymizations end, once, when passes overlap, stop and fail? |
| `operations` | Administrators, idempotent requests, budgets, incidents, readings, rebuilds, releases, the audit log and the browser: is each sound under its own failures? |
| `back_substitution`, `role_removal`, `final_administrator`, `stale_snapshot`, `spent_email` | violations: see below |

Components that write different tables are examined one at a time within a run: a
variable `focus`, chosen at the start and never changed, says which one acts, so a
run is the union of their state spaces and not their product. Every action of every
component is taken in some run.

### Bounds, and why they are enough

- `scheduling`: two sessions that overlap are the smallest instance with a conflict, a
  reschedule and a Teacher with two assignments; a capacity of 2 (the smallest the
  schema allows) with three Students the smallest with a full session. Three Booking
  rows allow a chain of two reschedules. The clock runs past the start of the
  sessions, so every deadline is met on both sides. At most one reminder is delivered,
  of the first session. The part about substitutions has at most three Bookings and
  absences together, one Student beside the one who teaches, and stops one tick before
  the last.
- `access`: one session of capacity 2 or 3 with three Students, one who is suspended
  and may lose or gain both roles. An adjustment comes before the first Waitlist entry
  and the first end of a Booking, where it is indistinguishable from a later one but
  for the balance it leaves. The Teacher loses the role while the Student acted on keeps
  theirs. Its reports have three Bookings in two sessions, of which one session is called
  off or one Booking leaves, two Sponsorships of one Student one after the other, one
  correction, overlapping windows of one Cohort, and instants 0 to 3. The leads of a classroom keep their order: a Student's
  is 0 ticks, a Teacher's 1, the booking lead no shorter.
- `worker`: one failed pass, a pass one tick long, a Booking row kept for each waiting
  entry so that no bound stops the worker.
- `benefits`: one Student, two Organizations with one invitation each (the least that
  can overlap), months of two days and one in turn, four provider events in any order.
- `learning`: two sessions of one Lesson Unit and one of another, which was attended (it
  is there to be counted), two transactions on attendance at once; one Sponsorship, two Cohorts and three names of which two differ
  in case alone; three transactions of the curriculum, two at once (three for
  retirements), in six groups by what they touch; one offset change of an hour either
  way.
- `platform`: two emails of one recipient, two exports, one anonymization, two passes
  of each worker, two attempts, three failures and two stops.
- `operations`: two administrators; three arrivals under one key, in the order of their
  names, since they are alike; one topic of incidents at a time; three rebuilds; budgets
  of 1; three releases; four entries written within a day and instants up to 20 for the
  retention; three calls and one reload of a page with one panel, of which two forms are
  used, or two calls where no form keeps a key; two roles, three places, two visits and one call to remember a
  place; every limit of the watch 1, two probes, two rebuilds, and up to five changes
  and six readings for outages, three and three for rebuilds, two and two otherwise. In
  `Readings` a durable incident is its open fingerprint; its lifecycle is `Incidents`'s.
  Within the life of a page no idempotency record expires.

Runs stop at their bounds, hence `CHECK_DEADLOCK FALSE`. Symmetry is used only where
Students, Organizations, transactions or memberships are interchangeable and the run
checks no liveness.

### Fairness

Two runs assume any. `worker` assumes weak fairness of `PassStep`, and `platform` of
the steps of every pass and of the day that passes before an email is due again
(`PlatformFairness`): the crontab (`worker/main.ts:44-49`) starts each of these tasks
every minute, the queue runs jobs one at a time, and a pass that fails is followed by
another. Requests, time, failures and stops are not fair, and failures and stops are
bounded, since a worker that always fails finishes nothing.

## What the code does not keep

Five runs each end in a violation, of a statement of the repository's own documents:

- `role_removal`: a request authenticated before the Student role is removed commits
  after the cleanup, although a comment in `role-assignment-service.ts` says nothing can
  cross it.
- `final_administrator`: the removal of an administrator counts suspended ones too, so
  the final active one can be removed (ADR 0033).
- `back_substitution`: the substitution of a Teacher who taught the session before
  passes all checks and fails on the uniqueness of reminders (ADR 0006).
- `stale_snapshot`: a snapshot captured while a correction is under way keeps a
  completion the correction removes (ADR 0053).
- `spent_email`: a worker stopped after it claimed the last attempt leaves an email no
  pass may claim; every later pass ends on it, and nobody is asked (ADR 0046).

Other disagreements met while reading the code. They are described here and in the
models they touch, and no run is spent on them:

- Scheduling. A Booking may be rescheduled past its refund deadline, and after its
  session began (CONTEXT.md:192); discovery even offers it, and then hides "book".
  The disruption list also offers resolved sessions; the Student page offers
  cancelling a started session; a waiting Student gets no "book" button for a freed
  seat; the Teacher's schedule offers sessions already reported.
- Sponsorship and reports. A manager's end and the acceptance of the next invitation
  hold different locks, so two Sponsorships may overlap by as much as one waited
  (ADR 0048). Windows of one Cohort may overlap (`cohort-service.ts:322`, `:368`) and
  are then counted twice by `projectCohorts`, once by the organization report. Two
  creations of one Cohort name at once: the second fails on the index instead of
  answering `COHORT_NAME_TAKEN`. The marketplace report counts Bookings of removed or
  suspended Students as unrecorded (`marketplace-report-service.ts:66-71`), and no
  exception item lists them. Corrections under an ended Sponsorship have no marker in
  the ordinary extract (`report-export-extract.ts:283-288`), and under overlapping ones
  `limit 1` picks an Organization. A session attended before an acceptance and recorded
  after it has no baseline, so it counts as gain. `completedDuringSponsorship` of an
  ended Sponsorship is not frozen. Both reports read several statements at READ
  COMMITTED, so they may be torn.
- Workers. A failure after an export completed tells the requester that it failed
  (`report-export-worker.ts:213`).
- Observability. A recovery may be told twice, or one that was told be forgotten
  (`operational-incidents.ts:384`); a confirmation is lost if its statement fails;
  an escalation may follow the recovery; the outage kept in memory is lost at a restart
  (`operational-watch.ts:66-78`), and its recovery when the record after it fails
  (`:160-193`); a reading torn by a rebuild that starts meanwhile may blame the previous
  attempt (`operational-observations.ts`); an integration alert may be read with a stale
  correlation (`operational-counters.ts`).
- Rebuilds and releases. The write guard leaves a gap (migration `0032:105` against
  `operator-guide.md:89-90`); a rebuild that stopped may stay REBUILDING; a clean
  rebuild that is rolled back leaves AVAILABLE against ADR 0030:5; an attempt may have
  two terminal audit entries. A served manifest is pruned after a failed release or the
  restart of an old API: the two exceptions `BundleIsAccepted` names.
- Curriculum and availability. Three concurrent retirements may make a cycle of
  replacements; an exception inside a repeated hour fails the local CHECK (`0006:35`).
- Audit log. Cursors carry milliseconds, so entries of one millisecond are skipped
  (`0030_audit_log_inspection.sql:8-9`); a page of the old filter is appended after a
  new one (`audit-log.tsx:178`); a partition dropped before a stop goes unrecorded.
- Browser. Forms that make a fresh key at each press repeat what was not heard
  (`createLessonUnit`, `addMaterial`, `addException`); a pending attempt shared by two
  forms is forgotten by the other's answer; a stored refusal of an export is replayed
  against `report-export.tsx:168-171`; a redaction form stays stuck after a lost answer;
  topic and profile forms say "saved" whatever the outcome; a late call overwrites a
  newer one. A place may be remembered for a role removed meanwhile
  (`role-workspace-service.ts:92-160`); Back, or a late answer, may switch the acting
  role without the guard (`app.tsx:77-88`), and after a denial of the stored role the
  safe return leads to the same place (`app.tsx:148-157`); the paths of roles are reset
  from a stale answer (`student-workspace.tsx:613-632`); Back is not remembered on the
  server, and a failed call to remember navigates nowhere.

## Theorems

All are proved for every value of the constants, under the named assumptions of the
modules (finiteness and types of the constants, the order of the leads, limits that are
positive). No assumption restricts the behaviours, only what the constants may be. Those
that say more than a type:

- `CalendarAssumption`: the months of the calendar reach past the last instant, so that
  the anniversary after any instant is in it;
- `LocalTimeAssumption`: a change of the offset is no longer than a day;
- `TeachingAssumption`: an exception has a Teacher and ends after it starts;
- `IncidentsAssumption`: the watch is neither a reporter nor an owner, and a condition that
  is reported directly has a fingerprint the watch does not use.

### `MarketplaceProofs`: the scheduling core

The invariants build on one another. Each step of the system is first described by what
it does to the tables of one concern (the "kinds of step" of the module), and an
invariant is then proved for each kind, not for each of the actions.

| Theorem | Property | Inductive invariant, and why it is needed |
|---|---|---|
| `TypeCorrect` | `TypeOK` | `TypedRows`: a used row names a Student and a session, or the updates of `balance` and `occupiedSeats` could not be typed |
| `NobodyIsDoubleCommitted` | `NoDoubleCommitment` | itself with the types: a handler has checked all commitments of the User except those it removes in the same transaction |
| `SeatsAlwaysReconcile` | `SeatsReconcile` | with `UnpublishedHasNoSeats`: publication sets the capacity without looking at the counter |
| `CreditsAlwaysReconcile`, `OneCreditPerChain` | `CreditsReconcile`, `CreditFollowsChain` | `CreditInvariant`: the two need each other (a chain is paid if the ledger says so) and `RowsAreClean` (an active Booking has no reason and no refund). A step books, ends, moves or adjusts, and each is shown to change account and chain alike |
| `PromotionsAreOneToOne` | `PromotionIsOneToOne` | `PromotionInvariant`: the above, since a fresh Booking row must be unpromoted |
| `HistoryStaysFinal` | `HistoryIsFinal` (action property) | `HistoryInvariant`: adds `CancelledIsEmpty` (a cancelled session has no occupant whose Booking could still change) and `UnreportedIsEmpty` |
| `FreedSeatsAreRequested` | `FreedSeatIsRequested` (action property) | the seats and the types: every step that leaves fewer occupants or more capacity in a session that goes on leaves a newer request |
| `CommitmentsAreAlwaysKept` | `CommitmentsAreKept` | `CommitmentInvariant`: one active Booking per Student and session, or ending one would remove the commitment of another; nobody teaches a session they attend (from `NoDoubleCommitment`), or a substitution would suppress the reminder of a Student; the unresolved disruption of a session is one |
| `CleanupsAreAlwaysComplete` | `CleanupsAreComplete` | `CleanupInvariant`: `SuspendedWaitForNothing` is why promotion needs no access check of its own; `CancelledIsRecorded` and `NoneWaitsForCancelled` are why nothing enters a cancelled session; `FutureTeachersHoldRole` is kept by substitution and publication because they look at the role under its lock |

### `WorkerProofs`: a waitlist pass between other requests

- `WorkerImplementsMarketplace`, `WorkerPromotesOneToOne`: `WaitlistWorker` implements
  `Marketplace`, step by step: what a pass commits is a promotion, a closing, or
  `MarkRequestProcessed`, and every other step of it a stutter. `PassInvariant` is needed for the
  guards of those actions: a pass's clock is an instant that was, and it handles candidates
  of the session it holds.
- `NoPromotionIsLost`: `NoLostPromotion`, from `WaitlistInvariant`: the versions a pass has
  read are no newer than the requests, what it still has to look at are entries of their
  session, and while a version it has read is still the request's and a seat is offered, no
  entry that could take the seat is missing from what it still has to look at.

### `BenefitsProofs`: grants

- `BenefitsTyped`, `BenefitsReconcile`, `BenefitsKeepPeriods`, `NothingLateRevives`: the
  types, `BalanceFollowsLedger`, `BenefitsFollowPeriods` and `NothingIsRevived`, for any
  calendar, Students, Organizations and provider events. `BenefitsInvariant` says of the
  account that it is its ledger (`CreditsInvariant`), of a Subscription that its grants are
  those of the periods its anniversary has passed (`SubscriptionInvariant`), and of
  Sponsorships the same and that two of one Student do not overlap but by `ClockLag`
  (`SponsorshipInvariant`). That the next anniversary exists and is the least after an
  instant is a lemma from the library's `NatLessThanWellFounded`.

### `LearningProofs`

- `FeedbackStaysAccountable`: `FeedbackIsAccountable`, from `FeedbackInv`: feedback never
  saved has no text, and only an anonymization adds to the redactions of an Administrator.
- `CorrectionsAlwaysReconcile`: `CorrectionsReconcile`, for any number of transactions.
  `AttendanceInv` has the rows (`RecordsInv`), the snapshots (`SnapshotsInv`) and what
  each transaction under way holds (`WorkInv`): the locks of two are disjoint, what one
  read under its locks is still in force, and what it wrote of the completions agrees
  with the outcomes it leaves. This is the argument of the code's lock order.
- `AttendanceIsAtomic`: `Attendance` implements `AtomicAttendance`. A commit maps to one
  abstract step (publication, correction, request or decision of a review), every other
  step to a stutter; the completions agree with the outcomes by the invariant above.
- `SchedulesStayApart`, `LocalTimesKeep`: `SchedulesAreApart` and `LocalTimesAreKept`. Ranges
  of one weekday that start on different days are disjoint in every week (`RangesInvariant`);
  a local time resolves to an instant that shows it, or is refused, and what is scheduled
  fits its working hours across a change of the offset (`TimeInvariant`).
- `TeachingStaysSound`, `ExceptionsStayFree`: `TeachingIsSound` and `ExceptionsAreFree`, for
  any number of transactions at once, from `TeachingInvariant`: the committed tables are
  sound, what each transaction has read still holds thanks to the locks it has, and the
  locks of two are disjoint. Positions without a gap are part of it.

### `PlatformProofs`

- `DeliverySendsOneMail`: `Delivery` implements `OneMail`, from `DeliveryInv`: a pass about
  to send knows that no receipt was written, or that what it holds is no longer due.
- `EndedExportsStayEnded`: `EndedExportIsFinal`, from `ExportInv`: no two passes work at
  one export, and a queued one has an attempt left.
- `FailuresStaySettled`: `FailuresAreSettled`, from these two and `AnonymizationInv`: an
  email given up is before an Administrator while it is undecided, and an anonymization
  that failed as often as the limit is, until an Administrator resolves its task or a later
  pass completes it. The row keeps apart who closed a task (`RESOLVED` by an Administrator,
  `RECOVERED` by the worker). Of failed exports, whose requester is told, it says nothing.

### `OperationsProofs`

- `AdminTypeCorrect`, `RoleIsNeverEmptied`, `SuspensionNeverLocksOut`: any number of
  administrators and of requests under way.
- `RetriesAreIdempotent`: `RetriesTakeEffectOnce`, from `RequestsInv`: a record is that of
  an effect under its key, and of every effect there is a record as recent.
- `RebuildsReopenAccountably`: `ReopensAccountably`, from `MaintenanceInv`: an attempt
  remembers that it replaced the data or did not hear of it, and a routine attempt that
  did not is the successor of data that may be open.
- `BundleStaysAccepted`, `BundleComesLast`: `BundleIsAccepted` and `BundleFollowsWorker`, for
  any rollouts that begin with API and bundle at one release, from `ReleasesInvariant`: the
  API accepts the bundle while a rollout that found them at one release has not replaced
  both, and a gate that saw the heartbeat become younger has seen its worker write.
- `AlertsStaySparing`: `AlertsAreSparing`, one half of the run's `AlertsAreTrue`, for any
  number of reporters and owners beside the watch, from `IncidentsInvariant`: what a caller
  has read is a past of the row, at most one caller has a confirmation to send, and only the
  watch raises a severity.
- `WorkspaceStaysChosen`, `RetriesStaySafe`: `WorkspaceIsChosen` and `RetriesAreSafe`, which
  together are the run's `ClientIsSound`. `WorkspaceInvariant`: whatever the tab, the screen,
  an entry of Back or a call carries of a role is a place of that role, it was chosen, and
  what is shown was verified. `ClientInvariant`: all calls of an attempt that was not
  displaced have one key, a key belongs to one form and target and is decided once, and the
  current attempt of a form that keeps its key is the one the panel holds. Loading a page
  again, turning to another attempt or Student, and in some panels another form's answer
  lose the key: of such an attempt, and of a form with fresh keys, the theorem says only
  that what the API does not repeat takes effect once (an adjustment of Class Credits may
  be made twice after a reload).

### Only model-checked

- Liveness under fairness, and ENABLED, are beyond the prover: `EveryEntryIsServed`,
  `WorkIsFinished`, and `PagesAreTrue`, which says that what a page offers is enabled.
- Induction over data is beyond it too: `PastAttributionIsFixed`, whose windows are
  computed with folds over the memberships, the reports (`ReportsHold`) with their sums,
  and the order and completeness of the pages in `AuditLogIsWhole`.
- `AdmissionIsLimited` compares the cardinalities of histories with the budgets, window by
  window, and `WatchIsHonest`, the other half of `AlertsAreTrue`, speaks of readings whose
  queries each see an instant of their own. Neither has a proof.

The theorems are about the components' own specifications. `scheduling` and `access`
check the same definitions under restrictions of the next-state relation, and
`worker` under one that refines it, so what is proved holds there too.

## Not modelled

- Generated code (`api/generated/resolvers.ts`, `apps/web/src/generated/graphql.ts`),
  verification catalogs, drills and smoke checks: they carry no state, or are scripts run
  by hand. The texts and messages of `packages/core`.
- Demonstration data and its hourly reconciliation; a rebuild is modelled, what it
  writes is not.
- Courses, topics, materials and profiles: single rows edited in place.
- Verification of tokens and of the source of a request, the syntax of a request, logs
  and telemetry, the owner's diagnostics, layout and wording.
- The order of row locks inside a `Marketplace` transaction. PostgreSQL aborts one of two
  that wait for each other, and nothing is committed; suspension and reschedule can meet
  that way (`user-suspension-service.ts:133`). `Teaching` and `Curriculum` do model locks.
- Suspension and reactivation are refused by the API in production and modelled as the
  other environments run them.

## Plan

What is left, in the order of its worth:

1. `AdmissionIsLimited`: that the requests a budget admitted within a window are no more
   than its limit, as a relation between the counter and the history.
2. `WatchIsHonest`: what a torn reading may still conclude.
3. `AuditLogIsWhole`: that a page ends where the next begins.
