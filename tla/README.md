# A model of nucleus-server

nucleus-server is the NestJS back end of an engineering college: students,
parents, employees and administrators sign in, students apply for leave and ask
for profile changes, teachers mark attendance, the placement cell maintains
companies and drives, the exam cell uploads results.  Everything persistent is in
PostgreSQL, reached through TypeORM at the default isolation level READ
COMMITTED; Redis holds caches, one-time tokens and a denylist; side effects
(push notifications, mail, object storage) happen after commit, best-effort.

This directory holds TLA+ models of the parts where requests of different people
meet in the same rows, the TLC configurations that check small instances of them,
and TLAPS proofs of what matters most for instances of every size.  Paths below
are relative to `src/src/` of the repository.

Contents: [inventory](#inventory), [how the code is cut into steps](#how-the-code-is-cut-into-steps),
[modules](#modules), [runs](#runs), [fairness](#fairness), [proofs](#proofs),
[where code and comments disagree](#where-code-and-comments-disagree),
[not modelled](#what-is-not-modelled), [plan](#plan).

## Inventory

| part | state | operations | what is hard | correct when |
|---|---|---|---|---|
| approval-request framework (`requests/`) | `approval_requests`, `approval_request_events` | create, resubmit, cancel, decide, send back; for students and employees | several people act on one request at once; the duplicate check and the insert are apart; a resubmit goes through the route of any type; notifications follow the commit | status follows the lifecycle diagram, one open request per claim, history and decision columns are true |
| approvers, verifiers, in-charges (`approval-approvers/`, `admin/attendance-groups`, `admin/programme-admission-years`) | approver sets per action, batch, group | replace a set | a set changes while requests wait | nobody decides without being an approver when the row is locked |
| student leaves (`student/leaves/`, `leaves/`) | `student_leaves` | apply, revise, withdraw, ask to cancel, take that back; two decisions | two request types move one leave row; dates are checked before they are written | no two leaves over one class, leave row and requests in lock-step |
| company catalog (`employee/corporate-relations/`) | `companies`, logo objects | create, edit, upload logo, decide | edits and uploads save entities read without a lock; objects are deleted after the commit | only decisions move a live company; one open request per company |
| class sessions and attendance (`admin/sessions/`) | `class_sessions`, `class_session_attendance`, `student_subject_attendance` | mark, amend, cancel, uncancel, edit, move, substitute | session saved after an unlocked read; rollup counted inside a marking; leaves approved meanwhile | rows only on held sessions, rollup equals the rows, absences agree with leaves |
| leave-attendance sync (`student/leaves/leave-attendance-sync.service.ts`, `leaves/leaves-read.service.ts`) | the same marks | flip absent/leave when a leave is approved or cancelled | the UPDATE waits for rows a marking has locked | only the marks it found are exchanged |
| auth sessions (`auth-sessions/`) | `auth_sessions` | login under the device limit, refresh, reissue, revoke, end the others | concurrent logins and refreshes, retries, expiry | limit holds, ended is ended, refresh tokens converge |
| credentials (`student/student-auth.service.ts`, `employee/auth`, `guardian/`, `admin/auth`) | credential rows, reset links and device-limit challenges in Redis | login, lockout, change, forgot and reset, administrator's password, Google | entity saved after bcrypt; token read, then deleted; sessions ended after the save | a password set later is never undone, and who knew an earlier one is out |
| account invites (`account-invites/`) | `account_invites` | send, supersede, revoke, accept | two sends, accept racing a revocation | one live invitation, used once, none older than an administrator's password |
| drives (`employee/drive-management/`, `student/placements`, `student/approvals`) | `drives`, `drive_students`, audit events, the students' inbox | import, invite, remind, respond, outcome, selection by form or sheet, revoke, remove, deadline sweep, the drive's status | conditional updates, then events, then inbox, without a transaction; a drive saved after a read | status diagram, true events, inbox in step, packages exactly on the selected |
| packages (`drive-attributes.service.ts`, parts of the above) | offer types, figures of a drive or of its designations, recorded packages | save a drive, edit an offer type, record a selection | one rule written twice, scopes, zero, ranges | sheet and form agree, recorded figures stay in order although storing rounds them |
| exports (`employee/exports/`) | `export_jobs`, files in the bucket | create under a limit, run detached, clean up hourly | worker and cleanup race; restarts lose workers | a link has its file, what was told stands, every job settles |
| timetables, seeding and holidays (`admin/timetables`, `admin/sessions/session-seeder.service.ts`, `admin/holidays`) | templates with periods and cells, class sessions | edit periods and cells, clone, publish chosen days; declare a holiday | merged classes; re-publishing while sessions are marked, moved or added | a grid without overlaps, one class at a time, history untouched |
| exam marks (`employee/exam-marks/`) | staging, results, GPA tables | upload, preview, commit | check before lock, full replace | a commit never loses a batch |
| RBAC, chat, notifications, analytics, query language, master data, ID cards, storage | see PROJECT.json | CRUD, reads, delivery | caches may be stale | — |

The parts interact through tables and calls.  The framework (`ApprovalRequestsService`)
calls the handler of a request type inside its transaction: `lockKeyFor`,
`assertCreatable`, `onRaised`, `applyDecision` and so on.  The leave handlers move
the leave row there and, through the sync service, the attendance marks.
Marking reads leaves.  The company screens write companies and open requests
outside the framework's transactions.  Sign-in services call `AuthSessionsService`;
accepting an invite and changing a password end sessions through it.  Publishing a
timetable creates the sessions that marking completes.

## How the code is cut into steps

An action is what no other request can interleave with.  With READ COMMITTED each
statement sees what is committed when it runs, so a handler is cut

* at every statement that can wait: `pg_advisory_xact_lock`, `SELECT ... FOR UPDATE`,
  an `UPDATE` of a row another transaction has written;
* between a read and the write that relies on it;
* at the commit, where all writes of a transaction become visible and its locks
  are released.

Handlers are processes: `pc[h]` is the statement handler `h` is about to run, `job[h]`
what it was asked and what it has read.  Statements of one transaction that
nobody can observe apart are one action with the commit.

TypeORM's `save(entity)` is two steps wherever it happens outside the framework's
row lock: it reads the row again (`Reload...`), computes the columns in which the entity
differs, and updates only those (`Flush...`).  This is external code, modelled as
the services rely on it.  A column nobody meant to change is written back when
it was changed between the first and the second read; many of the
[disagreements](#where-code-and-comments-disagree) below come from that.

A failure (exception, lost connection, crash) can strike wherever a handler is
between statements: inside a transaction everything is undone (`Fail`, `Restart`), outside
it what was written stays (`AbandonEdit`, `Fail` in AuthSessions, `Crash` elsewhere).

**What a property may assume.**  Where the code keeps a promise only as long as requests
do not overlap, or the server does not die between two statements, a *history variable*
remembers which disturbances have happened.  There are two kinds.

* `overlapped`, `noise` and `trouble` name what has run together, crashed or been reshaped, and a property names
  those it does not survive.  Where a hazard *is* such an overlap, the case itself is excluded by the
  property's condition and not caught by it: the code breaks the property then, as listed [below](#where-code-and-comments-disagree).  What
  the property does say is that nothing else breaks it, and which overlap each part of it needs.
* `outpaced` and `overwritten` (CompanyApprovals), `outrun` and `revived` (AuthSessions) name the rows a late save has spoiled.  The properties there
  hold in every behaviour: they single out the one step that writes over what was done meanwhile (`SavesLate`, `SyncsLate`),
  and exempt afterwards only the row it wrote.

The disturbances themselves are in the model and run freely, in the runs and under the theorems.  History
variables influence no guard, with two exceptions that are bounds: `MaxNoise` in Timetables
limits how many *kinds* of disturbance one behaviour has, and `MayOverlap` in AttendanceMarking
which of them may occur in a run.

## Modules

**RequestLifecycle** — the abstract specification of the framework: each request
walks the diagram above `APPROVAL_REQUEST_STATUSES` in atomic steps, and a claim
(profile field, company, stretch of leave) is held by at most one open request.

**ApprovalRequests** — `requests/approval-requests.service.ts`.  `requests`, `timeline` and
`approvers` are tables, `advisory` and `rowLock` the locks.  The public methods are `Start...`
(before the transaction), `TakeAdvisoryLock`, `LockRow`, `CheckDuplicates` (its steps) and
`Commit...` (the writes, the event, the commit).  The student and employee
variants differ only in routing, which `RouteOf` abstracts.  A row keeps its type, and a payload has one (`TypeOf`): nothing
compares the two when a request is resubmitted.  The services of the leaves and of the companies look the request up in their
own domain first; those in `OpenRoutes`, which is the profile update, pass on any id.  Such a request is decided by its own type all the same, and holds
no claim (`Held`), as every duplicate check looks at requests of one type for items of that type.  `MayAct` is evaluated when
the row is locked, as `assertCanAct` is.  The request types enter through constants:
`ClaimsOf`, `LockKey`, and the assumption `LockContract` that clashing payloads are of one type and share a lock key.
It is shown to implement RequestLifecycle (`ImplementsLifecycle`).

**StudentLeaves** — extends ApprovalRequests by the `student_leaves` table and the
hooks of the `leave_apply` and `leave_cancel` handlers, each conjoined with the framework's
commit it runs in.  The framework's duplicate check is replaced by the handlers'
own (`Refuses`), which looks at leave rows; `ImplementsFramework` shows that this is
still an instance of the framework.  A leave's dates and half-day window
are the set of class periods it covers.  A sent-back leave request can also come back through the profile-update route
(`profile-update-request.controller.ts:62`, `approval-requests.service.ts:364`): `StartRevise` with a payload of `ProfileUpdates`,
under the profile's lock key, and `Revise` then leaves the leave row alone.  `LeavesInLockStep` speaks of the statuses
without exception; of the dates only while the request's payload is the leave's.

**CompanyApprovals** — extends ApprovalRequests by companies, their logo objects and the
screens of `corporate-relations.service.ts`.  `edit[h]` is a screen's request with the
entity it has loaded; `seen[h]` what `assertSubmittable` has read.  Nothing holds a row between such a read and the
write that relies on it, so decisions, uploads and edits overtake it freely.  `outpaced` remembers the companies a save or a submit came too
late for, `overwritten` the requests whose status a late `syncLogoKey` took back; `SavesLate` and `SyncsLate` are the steps that do it.

**AttendanceMarking** — `attendance-marking.service.ts`, the single-session operations of
`class-sessions.service.ts`, and the flip of `leave-attendance-sync.service.ts`.  Date and period of
a session are one slot, a leave is a set of slots.  Marks are `present` (which
stands for `late` too), `absent` and `leave`.  Rows a marking has written are in `job` until it
commits; others wait for them (`LocksRow`, `LocksSession`).  `overlapped` remembers what has been in
flight together: two handlers on one session (`"session"`), two markings (`"rollup"`), a marking and a
leave decision (`"leave"`).

**AuthSessions** — `auth-sessions/auth-sessions.service.ts` for one subject.  A refresh token is
the number of its jti in its session.  `handed` are the tokens clients have
received: a client may present any of them at any time, which covers retries,
two tabs refreshing at once, and replays.  Revocations and rotations come between `reissue`'s read and its
save as they please: `outrun` remembers the requests whose session was written meanwhile, `revived` the sessions that were ended and
are not any more, and `SavesLate` is the save that does it.  `Tick` assumes that no request lasts as long as
the token it works with: a session does not expire under a password change that came on it, nor a new
refresh token before it is written (lifetimes are days, requests seconds).

**PlacementLifecycle** — the abstract specification of a placement drive: the statuses of
`drive-student-status.ts` and the only ways between them, for a batch of students at once.  Where that file's comment and `invite()` differ, the specification follows `invite()`
([below](#where-code-and-comments-disagree)).

**DriveStudents** — `drive-students.service.ts`, the status and edit operations of `drives.service.ts`,
`drive-auto-reject.service.ts`, the student's answers and the inbox mirror.  A request of the cell reads (`Start...`),
runs one conditional UPDATE (`Write...`), inserts events (`LogEvents`, or `LogFails` when a row is
gone) and mirrors into the inbox (`SyncDrivePlacements`): four statements, no transaction.  The sweep and the
selection sheet (`CommitUpload`) are transactions, hence one action.  `past` is the history the audit
trail is compared with.  It is shown to implement PlacementLifecycle (`KeepsTheLifecycle`).

**PlacementPackages** — the figures of a drive and of a recorded selection: `DrivesService.validate`,
`refineSelectionPackage`/`assertSelection` (the form: `FormAccepts`), `validateSelectionRows`/`defaultPackageFor`
(the sheet: `SheetAccepts`, `Resolved`), and the edit of an offer type under a drive.  Every drive the
constants allow is reached, so the two rules are compared on all bounded inputs.  The rules compare the numbers of the
request; the columns are `numeric(12,2)`, so what is kept is `Stored...`: the request's figures through `Rounded`, of which only monotonicity is assumed.

**AccountCredentials** — `student-auth.service.ts`, `device-limit-challenge.service.ts`, `account-invite.service.ts`
and the administrator's two passwords, for one student.  Passwords are numbered in the order they are
chosen; a session carries the password in force when it was opened, which is what
relates credentials to sessions.  `job[h].entity` is the credential a request has read; `Save` makes the row
what the request had read, with its changes.

**ExportJobs** — `export-jobs.service.ts` and `export-cleanup.service.ts`.  Three kinds of process: creators, one
detached worker per job, the hourly sweep.  Time is three facts about a row: `stale` (30 minutes
untouched), `due` (its file has expired) and `old` (a month).

**Timetables** — `timetables.service.ts` and `session-seeder.service.ts` for one attendance group and one week.  A
session's key is day, template, period and row, the unique key ON CONFLICT relies on; `entry` is the cell it was
seeded from, NULL for an ad-hoc class.  Publishing is `StartPublish` (the DELETE's snapshot), `Wipe` (it waits for
rows another publish has deleted) and `Publish` (seed and commit); placing a class is `StartPlace` (the periods read
before the transaction) and `Place`.  Marking, cancelling, moving and adding sessions are one step each, and so are
declaring a holiday over a range of days, which cancels its scheduled sessions, and taking one back; a changed range is the one and then the other.
`Semester` are the days `clampWindow` leaves of a publish.

`MC...` modules give the constants their small values.  `..._proofs` modules hold the
theorems.

## Runs

Handlers, once finished, take on new work, so in most runs none may stop and deadlock is
checked.  Where the number of requests is bounded (`MaxCalls`, or the rows of `Jobs`), the system ends by running out of
them, and the cfg says `CHECK_DEADLOCK FALSE`.  Symmetry is declared only where no liveness
property is checked.

An invariant `...Inv` is a module's type invariant together with the safety that goes with it
(`IInv` is the inductive invariant of [the proofs](#proofs)); the parts have names and comments of their own.

| run | instance | shows |
|---|---|---|
| `requests_claims` | 2 requests, 2 handlers, 1 requester, 1 employee, two payloads that share a claim | two submits, resubmits, cancels, decisions and send-backs race in every order, with approver changes, failures and restarts in between: checks stay valid, claims exclusive, history and decision columns true, nobody is told of what was rolled back; ApprovalRequests implements RequestLifecycle |
| `requests_progress` | 1 request, 2 handlers, two send-backs, fair | every handler ends: advisory lock and row lock never deadlock |
| `leaves_lockstep` | 2 requests, 2 handlers; morning, afternoon, whole day | no two standing leaves share a period; the statuses of the leave row and of its two kinds of request stay in step, also when a request comes back through the profile-update route; every leave walks the diagram of the entity; checking leave rows implements checking open requests |
| `company_catalog` | 2 requests, 1 company, 1 version of its details, 2 uploaded logos, 2 handlers, 4 events | edits, uploads, submits and decisions overtake one another: only decisions and saves that come late move a company, kinds of request fit the status of every company nothing came late for, and its requests follow the lifecycle but for the late fold of a logo |
| `attendance` | 2 sessions of 2 subjects, 2 periods, 1 leave over the first, 1 student, 2 handlers, `MayOverlap = {"rollup", "leave"}`, one of them at a time | rows only on held sessions; the rollup is their projection and absent/leave agree with the leaves as far as what has overlapped allows; no leave decision undoes a presence |
| `sessions_limit` | 2 sessions, 1 device and none, limit 1, 2 handlers, tokens 1..3, 4 in all, one tick of the clock | device limit, ended stays ended and rotations remember what they replaced, but for the late save of a reissue, which happens |
| `drives_lifecycle` | 2 students, one of them listed already, 2 requests at a time, 3 in all, 1 deadline | rows move along PlacementLifecycle only, packages exactly on the selected, a response on record of a revoked row means it had been accepted, only the selected are congratulated; events and inbox tell the truth as far as the missing transactions allow; the sweep settles every open invitation |
| `placement_packages` | 2 designations, at most 1 listed, 1 offer type, figures 0, 0.008, 0.01 and 0.02 | sheet and form accept and record the same; when a sheet of bare roll numbers suffices; what is recorded stays in order, rounded and when the drive is edited |
| `credentials` | 2 handlers, 4 requests, 2 sessions (limit 1), 2 invites, 2 tokens, 2 attempts, 3 passwords | an invite sets a password at most once and never when superseded, revoked or expired; no invitation older than an administrator's password works; open sessions know the password in force; lockout and forced change |
| `exports` | 2 jobs, 2 creators, limit 1 | links find their file, no file without a row, the limit, what was told stands, every job settles although restarts kill workers |
| `timetables` | 2 templates, 3 days, the last outside the semester, 2 periods, 2 handlers, 3 requests, 1 kind of disturbance; a class, an elective of two cohorts and a course of the timetable's own | classes fit their day and do not overlap, the published week has one class at a time, publishing spares what has happened and the days that are not its own |
| `credentials_password_returns` | 2 handlers, 2 requests | violates `PasswordStands`: see [below](#where-code-and-comments-disagree) |

Bounds, and why they suffice:

* *Two handlers, two requests.*  Every race of the code is between two transactions over
  one row, one lock key or one claim.  The theorems have no such bound.
* *`MaxEvents = 2`*: no send-back starts on a longer timeline (guard of `StartSendBack`).  A request can be
  sent back and resubmitted, which is the only cycle of the diagram, and then decided or cancelled.
  `requests_progress` has `MaxEvents = 4`, two rounds of it, as a handler could be overtaken in each.
* *`Ids`* bound how many requests are ever raised.  With two, `leaves_lockstep` has
  either two applications or one application and one cancellation of it; a third application
  against a leave whose cancellation is open needs three rows and is not reached there; the theorems cover it.
* *`MCBounded`* (a `CONSTRAINT`).  Company: someone may approve throughout (`requests_claims`
  covers an empty approver set), and the two requests have four events in all: one is raised, sent back, resubmitted and decided, or
  is raised and decided while the other is.  Sessions: four refresh tokens in all, three of one session and one of the
  other, or two of each.  Attendance: one kind of overlap in a behaviour.
* *Company.*  Two uploaded logos: one is kept by a row and the other put in its place, and a row with a logo is a changed row, so one version
  of the details is enough.
* *Attendance.*  One student, as rows of different students never meet.  Two sessions are
  needed for the rollup (two subjects), two periods for a session that moves into a leave or out of it.  `MayOverlap` leaves out two
  handlers on one session, which multiplies the states; what goes wrong then is listed below.
* *Sessions.*  `MaxJti = 3` gives two rotations in succession, which is how an old token
  leaves the grace window (there `Grace = 0`; the time-based end of a longer window
  is not distinguished from it).  `Ttl = 1` and `MaxTime = 1` let a session expire at the limit.
* *Drives.*  Three requests bring a student who is on the list to a selection or a revocation, or to a
  re-invitation after a refusal by the sweep; the other student can be imported, also by two requests at once, and removed.  `LastDate = 1`: one deadline, before and after.
  `DriveInit` starts with the drive in any status but archived and with some students (`Listed`) imported, so that
  the requests go to the students.
* *Packages.*  The figures give a zero, a proper range, every order of two figures, and two figures that rounding makes equal (0.008 and 0.01); a
  row's rules look at one designation only.  That rounding can also make a positive figure zero is left to the theorem, which knows nothing of `Rounded` but that it keeps the order.
* *Credentials.*  Four requests: two passwords set by two ways, a sign-in before and after.  One password
  more than are in force at once shows a return of the first.
* *Exports.*  One job more than the limit; two creators race for it.
* *Timetables.*  Two periods admit a merged class, its two halves and a reversed order.  Three requests: two publishes and
  one edit, mark, move or template switch between them.  The templates may start filled (`FirstGrids`), as
  filling them would use the requests up.  The third day lies outside the semester, so a publish asked for it is clamped.

## Fairness

`requests_progress`: `FairSpec` has weak fairness for every step of a
handler that has begun, and strong fairness for acquiring either lock.  The first
holds because Node's event loop goes on with every request it has accepted and the
connection pool's timeouts turn a lost connection into `Fail`, which ends the handler
too; the second because PostgreSQL queues waiters for a lock in order of arrival.

`drives_lifecycle`: weak fairness of `Sweep` alone, the hourly `@Cron` of
`drive-auto-reject.service.ts`.  `exports`: weak fairness of the hourly cleanup as a whole: a crash starts it
over, but the cron comes back and some step of it is taken again; and of time (`GrowStale`, `FallDue`).  No fairness of workers: a restart may kill each of them.

Nothing is assumed about people: no request need ever be decided, no approver set, no
invitation answered, no screen submitted again.

## Proofs

`ApprovalRequests_proofs` proves, for every set of requests, requesters, employees, handlers,
payloads, types and scopes, for every claim function and every bound on the timeline:

* `Inductive`: the inductive invariant `IInv` holds in every reachable state;
* `TypeCorrect`, `LocksAreHeld`, `ChecksAreStable`, `ClaimsAreExclusive`: its parts
  `TypeOK`, `LockDiscipline`, `ChecksStayValid` and `ClaimsExclusive`;
* `HistoriesAreTrue`: `HistoryIsTrue`; `NotificationsAreCommitted`: `NotifiesOnlyCommitted`;
* `RefinesLifecycle`: `Spec` implements `RequestLifecycle`.

Two assumptions on the constants are used.  `RoutingData` says that routes,
lock keys, types and permissions map the given sets to each other, that there is a payload, and that `Nobody` and `Absent` name no one and no row.
`LockContract` says that two payloads with a common claim have the same type and the same lock key: that is
what the framework asks of a handler's `lockKeyFor`.

`ClaimsExclusive` alone is not inductive: a handler standing before its insert could
have checked long ago.  The strengthening says why that cannot be.

    IInv == TypeOK /\ OpMatchesPc /\ LockDiscipline /\ ChecksStayValid /\ ClaimsExclusive

`OpMatchesPc` says which operations can stand at which statement; `LockDiscipline`, that a handler past
a lock statement owns that lock; `ChecksStayValid`, that a submitter about to write still sees no clash and
that a decider's request still has the status it read.  With
`LockContract` and `LockDiscipline` at most one submitter at a time stands past the lock of a claim
(`OneSubmitterPerItem`), so no other insert can invalidate its check; a row's status changes
only under its row lock, so nobody else can invalidate a decider's.  The proof of the step has
one lemma per group of actions (`StartEffect`, `CommitEffect`, `RollbackEffect` say
what each changes), and `CommitIsRowStep` shows that each commit is one step of the lifecycle on the row,
which serves both `ClaimsExclusive` and the refinement.  `LogStep` is the same for the timeline: every commit appends one event to one
request's timeline, from which the two theorems about histories and notifications follow.

`StudentLeaves_proofs` proves, for every number of students, leaves, handlers and class periods, and under the
third assumption `LeaveTypes` (which spells out the framework's parameters for the two leave types and the profile update, whose route is open):

* `LeavesNeverOverlap`: `NoOverlappingLeaves`; `LeavesKeepStep`: `LeavesInLockStep`;
* `LeavesImplementFramework`: the leave handlers, with their own duplicate check, implement `ApprovalRequests`,
  so all its theorems hold of leave requests (`LeaveClaimsAreExclusive` is one);
* `LeavesWalkTheDiagram`: `LeavesFollowDiagram`.

    LInv == IInv /\ LeaveTypeOK /\ RowsFit /\ JobsFit
              /\ LeavesInLockStep /\ LeavesAreFree /\ NoOverlappingLeaves

`RowsFit` and `JobsFit` say whose a request is, and that whoever revises one either is the leave's own student with an application or
came through the profile's route.  `LeavesAreFree` is the leave counterpart of `ChecksStayValid`: an application about to be written still finds its
slots free, since another writer for that student would hold the same advisory lock.  The argument goes round
once: lock-step makes a passed check of leave rows a passed check of open requests (`PassedChecksAreClean`), so the step is
a step of the framework (`LeaveStepIsFrameworkStep`), so `IInv` is kept, so the writer knows the status of
the row it locked (`WriterKnows`), so the hook finds the leave where lock-step says (`CommitMoves`), so lock-step is kept
(`MovesKeepStep`).  `Moves` names the ways in which a request and a leave move together.  The
profile's route (`Crossed`) is one of them: it moves the request between two open statuses and no leave, so no status gets out of step, and
it takes the request's claims away, so no check that passed can fail (`ComingBackKeepsStep`).

`AttendanceAndExports_proofs` holds the theorems of two components that share nothing.  Of the exports, for every finite set of jobs, every set of create requests and every limit:

* `ExportsSound`: `ExportInv`; `ToldStandsAlways`: `ToldStands`;
* `ActiveLimitHolds`: `WithinActiveLimit`.

    ExportIInv == ExportInv /\ ToldStands /\ WorkersFit /\ SweepFits /\ StaleFits

Neither `ExportInv` nor `ToldStands` is inductive: a worker about to write `ready` says nothing yet.  `WorkersFit`
says that a job with a worker is unfinished, untold and not purged, and that a worker past its upload has a stored file;
`SweepFits`, that what the sweep has read is still an expired `ready` row when it deletes the object;
`StaleFits`, that without a late worker a row that looks abandoned is.  For the limit, `LimitIInv` adds `WorkersActive` (a
worker's job is active) and `RoomIsKept` (a request that has counted is alone and there is room);
`Shrinks` shows that every other step leaves the active jobs or takes some away.

`DriveStudents_proofs` proves, for every set of students and of concurrent requests:

* `DriveRowsSound`: `DriveInv`; `RevocationTellsAcceptance`: `RevokedTellsAcceptance`;
* `DriveKeepsLifecycle`: `DriveStudents` implements `PlacementLifecycle`;
* `CongratulationsAreTrue`: `CongratulatedAreSelected`;
* `TablesAgreeWhenQuiet`: `AgreesWhenQuiet`; `AuditTrailIsTrue`: `TrailIsTrue`.

    DriveIInv == TypesFit /\ RowsTyped /\ PackageOnlyOnSelected /\ \A s : HistoryOf(s)

`RowSteps` says that whatever runs, each row makes one of eight moves (`RowMoves`), since every UPDATE tests the status it
moves from; the theorems about rows and the refinement follow from the moves alone.  `HistoryOf` relates a row
to what became of it: what a response on it means depends on the history, not on the row.  `TellIInv` adds that whoever is about to be congratulated
has been selected by the request's own UPDATE (`TellFits`; `SelectedStays` keeps it true), and
that a request without company finds what it read (`AloneFits`), which the second half of the property, nobody twice, needs.

`TablesAgreeWhenQuiet` rests on `InboxFits` (the inbox shows what the row says, but for the rows a request is about to mirror) and
`ArchiveFits` (an archived drive, or one about to be saved as archived by a request that is alone, has nobody unsettled).  For the audit trail

    AuditIInv == TellIInv /\ AuditFits /\ TrailFits

`AuditFits` says that a row has not moved to a status more often than was audited and than requests still owe an
INSERT for (`Owing`), as long as no crash took an event; `EventsFit`, that the rows of an event still to come are there and did move.
`TrailFits` says that in quiet the trail is the history, or lacks its last move, whose event the request under way is about to insert (`LagsBy`).
The lemmas count occurrences in sequences (`TimesTaken`, `TimesAudited`) by the cardinality of the sets of their positions.

`AuthSessions_proofs` proves, for every set of devices and requests, every finite set of sessions and every limit, whatever comes between
`reissue`'s read and its save:

* `SessionsWithinLimit`: `SessionInv`; `RevokedForGood`: `RevokedStaysRevoked`;
* `RotationRemembers`: `RotatedOutIsRemembered`.

    SessionIInv == TablesFit /\ HistoryFits /\ JobsFit /\ LoginFits /\ ReissueFits /\ WithinLimit

`LoginFits` is why the limit holds: a login past the advisory lock is alone, and whatever is live and has not come back is among the sessions it read.
Nothing else makes a session live: a rotation renews a live one, and `ReissueFits` says that a row between
`reissue`'s read and its save is as it was read unless the request is `outrun`, so that only a save that is late revives a session or loses a token.
`JobsFit` carries what each request knows (`Holds`): the session a
password change came on is live until somebody ends it, which is where the assumption about `Tick` enters.  `StepOf` says what a
step of a request does to one row (`RowMoves`: it stays, ends, opens, is renewed or returns) and to the request; the two action properties follow
from the row's moves alone.

`AccountCredentials_proofs` proves, for every set of requests, sessions, invitations and tokens, every limit and every
number of attempts and passwords:

* `InvitationsSetOnce`: `InviteSetsOnce`, whatever overlaps or crashes;
* `LinksStayCurrent`: `LinksAreCurrent`; `CredentialsSound`: `CredentialInv`; `SessionsFollowPassword`: `SessionsKnowThePassword`.

      LinksInv == TypesFit /\ SendsFit /\ OverlapFit /\ LinksFit
      PasswordInv == TypesFit /\ OverlapFit /\ LinksFit /\ PasswordsFit
      WrongInv == TypesFit /\ OverlapFit /\ WrongFit

Each part is conditional on what has run together (`noise`), as the properties are.  `InvitesFit`, which is not, says that whoever
accepts an invitation holds it, live and alone.  `SendsFit`: a send about to insert has every live invitation on its list.
`OverlapFit`: one request at a time, no invitation is live while an administrator's password is between its read and its save,
and what a request holds is marked as the row would be (`JobMarked`).  `Solo` is the lemma the rest turns on: without an overlap the
request that moves is the only one, so what is said of requests has to be shown of one.  `PasswordsFit`: an open
challenge that is not superseded was proved with the password in force, and a password about to be saved is later than every
challenge; `WrongFit`: what will be written over the row counts every wrong password since the last right one, or locks it.  The proof
uses that invitations and tokens are different things (`CredentialAssumption`).

`AttendanceAndExports_proofs` proves of attendance, for every finite set of sessions (`SessionAssumption`) and any number of students, leaves
and transactions:

* `AttendanceSound`: `AttendanceInv`; `PresenceIsKept`: `PresenceIsTheTeachers`;
* `AbsencesFollowLeaves`: `AbsencesMatchLeaves`; `RollupFollowsRows`: `RollupIsProjection`.

      RowsFit   == TypesFit /\ AloneFits /\ RowsOnlyOnHeldSessions
      LeavesFit == RowsFit /\ DecisionsApart /\ AbsencesFit
      RollupInv == RowsFit /\ RollupFits

Each property holds under what has not overlapped (`overlapped`, which `OverlapFits` ties to what is in flight: `Apart`), and so does
each part.  `AloneFits`: the row of a transaction alone on its session is as it was loaded (`AsLoaded`), so the UPDATE writes
the entity (`FlushedIsEntity`), a session with rows stays the same class (`FlushEffect`), and only a commit of a marking gives
rows (`CommitEffect`, `RowsKept`).  `DecisionsApart`: decisions in flight are about different students, and effective leaves of a
student are disjoint, so that revoking one leaves no class that another still covers.  `AbsencesFit`: what a marking is about to
write agrees with the leaves as they are, and what a decision found is all there is to flip.  `RollupFits`: what a marking has counted
is what it would count at its commit (`TallyStays`), although its own rows and the flip to completed are visible to nobody else.

`PlacementCatalog_proofs` proves, for every number of companies, logos, requests, employees and handlers, whatever overtakes an unlocked read:

* `CatalogInductive`: `CatalogIInv` holds in every reachable state; `CatalogSound`: `CatalogInv`;
* `DecisionsMoveCompanies`: `OnlyDecisionsMoveCompanies`; `CompaniesRefineLifecycle`: `CompanyRequestsFollowLifecycle`.

      CatalogIInv == /\ IInvIn(Untouched) /\ CatalogInv /\ CompaniesExist /\ LateAreKnown
                     /\ \A h : EditFits(h) /\ SubmitFits(h)

It rests on the framework's invariant, but of fewer requests: `IInvIn(I)` is `IInv` with the claims of the requests in `I` only, and the
lemmas of `ApprovalRequests_proofs` are about any such `I`.  Here it is the requests no late fold has touched.  Every step is one of the framework or folds a logo into an open
request or one that was decided meanwhile (`Folds`); a fold that is late takes its request out of `Untouched`, any other changes neither claims nor status, so the invariant is kept
(`CatalogKeepsIInv`).  `EditFits` says what still is so of a row a screen has read: it was not live then, so the save never makes it live, and the proposal a fold
would write fits its company while it is open, unless that company is `outpaced` (`FitsWhileOpen`).  `SubmitFits`: the kind of request written is the one that fitted the
company as read, which is all that can be known; if the company has moved since, the commit says so.  `LateAreKnown` ties the two histories
together.  `Moves` names what a step does to a company: it is created, edited, or decided upon; `RequestMoves`, what it does to requests.
`CompanyRows` says that the value for no row is none.

Of the packages of a drive, for every set of designations and offer types, every largest figure and every length of the list:

* `PackagesSound`: `PackagesInv`; `SheetFollowsTheForm`: `SheetFollowsForm`.

`RoundingAssumption` is all they know of storing: it keeps the order of two numbers, and may make them equal or a positive one zero.  The inductive invariant `PackagesIInv` adds to the types that figures of a designation the drive lists fit the offer type as long
as no flags were changed under the drive; `SheetThenForm` and `FormThenSheet` compare the two validations, cell by cell.
`NothingAssumption` says that the values for no drive and no selection are neither.

`Timetables_proofs` proves, for every number of templates, days, classes, cohorts and requests, every finite set of periods and
every set of grids to start with:

* `GridSound`: `GridInv`; `WeekSound`: `OneClassAtATime`;
* `PublishSpares`: `PublishSparesTheRest`, with its halves `HistoryIsKept` and `OtherDaysAreKept`, whatever overlaps.

      GridFits == GridInv /\ OneAtATime /\ PlacesFit
      WeekFits == GridFits /\ (noise = {} => LiveFit /\ OneTemplate /\ PublishesFit)
      RowsKept == TimetableTypeOK /\ WipesFit

`TimetableTypeOK` carries what each request holds: which template, days and rows (`Placing`, `Publishing`), and that a session's entry is
a cell of its template, which every edit of a template has to restore by orphaning (`OrphanEffect`).  For the
grid: the request that moves is the only one (`OneAtATime`), so a placement still knows its template's periods (`PlacesFit`); a placed
class drops every class its run meets (`PlacedWell`), and a run shortened by dropped periods ends inside the day, because no more
than the periods of a day can be mapped into it one to one (`ClampedFits`, by the pigeonhole theorem).  The week is not a
consequence of the grid: `LiveFit` says that a session not cancelled is what its cell says, `OneTemplate` that those of one day come from
one template, and `PublishesFit` that a publish under way has deleted all that is scheduled on its days, so that what it leaves is marked,
and of its own template unless the step is tagged `"switched"` (`PublishKeeps`).  Two sessions at a time are then of one cell, and one cell seeds two
rows only for cohorts, which is the assumption `TimetableAssumption` makes of `RowsOf` (`expandEntry`).  `WipesFit`, which needs no condition: the rows a publish
has deleted are its own, scheduled, from an entry and of those of its days that lie in the semester, since two publishes cannot delete the same row and nobody else touches a deleted one.

Model-checked only: progress (`EveryHandlerEnds`, `InvitationsSettle`, `JobsSettle`).  Liveness under fairness and `ENABLED` are
beyond the proof system's reach and stay with TLC.  Every other property of a passing run is proved.

## Where code and comments disagree

Shown by a run of its own: `credentials_password_returns` — `completeLogin`, like `registerFailedAttempt` and
`changePassword`, saves the credential read before bcrypt (`student/student-auth.service.ts:663`).  A reset, change or
accepted invite that commits meanwhile is written back to the old hash.  The comment at `account-invites/account-invite.service.ts:593-595` says that
"a revocation failure must not roll back a password the person has already been told is set"; what it speaks of is a failing revocation, and
the run applies what it wants for the person to another cause, a sign-in.

The others are inside the passing runs: each of the following happens there, and the property of the run says what holds in spite of it.  Taking the
named condition or exception out of the property makes TLC show it.

Requests and leaves (`leaves_lockstep`)
* `resubmitForStudent` (`approval-requests.service.ts:364-435`) compares neither the request's type with the route's nor the new payload with the old, and
  `PUT /student/requests/profile-update/:id` (`student/profile/profile-update-request.controller.ts:62-74`, `profile-update-request.service.ts:751-764`) passes on any of the student's request ids.  A leave
  request that was sent back can so become pending again with a profile's payload: the leave's dates are no longer in its request, no overlap is looked for (none can arise, since the leave's dates do not
  change), and deciding it decides the leave.  `ApplicationInStep` and `NamesItsCancellation` exempt the payload; the statuses stay in step.

Companies (`company_catalog`)
* `updateCompany` and `setLogo` (`corporate-relations.service.ts:345`, `:396`) save a company read before an approval, so a live row changes without a decision (against `:302`), and
  may be pending or rejected again.  `OnlyDecisionsMoveCompanies` admits that save (`SavesLate`) and, for a company it happened to, the rejection of a first
  approval it no longer needed.
* `syncLogoKey` (`company-approval.service.ts:233`) saves a request it read without a lock, and an
  approved, rejected or cancelled request is open again (`SyncsLate` in `CompanyRequestsFollowLifecycle`).  When the request was sent back and resubmitted meanwhile its new payload is lost in the same
  way; no property speaks of that.
* `assertSubmittable` reads the company (`company-approval.service.ts:436`) and then the open requests (`:463`); when the last open request is approved in between, a
  *create* request is opened for a live company.  `KindMatchesCompany` exempts such a company (`outpaced`).
* `LogosAreStored`, as an invariant of this run, is violated, and by one request after another: the object dropped after a
  decision, "the logo object that lost" (`company-approval.service.ts:732`), is chosen from the keys in the request (`:736`).  A logo uploaded for a
  company that is not live stands on the company row itself (`corporate-relations.service.ts:394-396`); rejecting its request deletes the object and
  leaves the key on the row, which can be edited, proposed again and go live with it.

Attendance (`attendance`): `AttendanceInv`, `RollupIsProjection` and `AbsencesMatchLeaves` without their conditions on `overlapped`
* a cancellation saved over a marking (`class-sessions.service.ts:844`) leaves rows on a cancelled session;
* two markings of one subject count what each sees (`attendance-marking.service.ts:293`), and the later upsert misses the other's rows;
* `mark` reads leaves inside its transaction so that a concurrent approval "can't slip between" (`attendance-marking.service.ts:153`); at
  READ COMMITTED it can.

Sign-in sessions (`sessions_limit`)
* `reissue` (`auth-sessions.service.ts:332-347`) saves a session it has read, without a lock: one revoked
  before the save's second read is live again, although `revoked_at` is otherwise never cleared, and of one rotated meanwhile the token the rotation handed out is neither the current one nor the
  previous.  `RevokedStaysRevoked` and `RotatedOutIsRemembered` admit this save alone (`SavesLate`), and the device limit counts the sessions that have not come back.
* The loser of a concurrent refresh reads the row after the winner has already rotated again, is taken for a replay, and the session is burned
  (`:303-316`).  AuthSessions has the behaviour (`ExplainMiss`); no property speaks of it.

Credentials (`credentials`): the parts of its invariants without their conditions on `noise`
* the reset link is "Single-use: consume the token before doing anything else" (`student-auth.service.ts:475`), but read and delete are two
  commands, so two overlapping resets both pass; the device-limit challenge is peeked and consumed in the same way (`SingleUse`);
* overlapping wrong passwords each save the counter they read plus one, so more than `MAX_FAILED_ATTEMPTS` are answered (`AttemptsAreCounted`);
* a crash, or a sign-in in flight, between saving a password and ending the sessions leaves sessions of the old one open (`SessionsKnowThePassword`);
* two overlapping sends leave two live invitations (`OneLiveInvite`, `account-invite.service.ts:382`);
* without any overlap: an administrator's password closes the invitations sent before it (`students.service.ts:787-812`), but neither `adminSetPassword` nor `adminResetPassword`
  (`student-auth.service.ts:514-576`) deletes a reset link, so one requested before still works and overwrites that password.  The comment at
  `students.service.ts:793` speaks of invitations only, and so does `NoInviteOlderThanAdminPassword`.

Drives (`drives_lifecycle`): the parts of `TrailIsTrue`, `AgreesWhenQuiet` and `CongratulatedAreSelected` without their conditions
* `drive-student-status.ts:14` says that "40, 50, 60, 70, 80 are terminal", but `invite()` (`drive-students.service.ts:561-568`, `:582-586`) takes denied (40) and revoked (80) students back to invited, and its own comment says so.
  PlacementLifecycle specifies what `invite()` does; of the outcomes (50, 60, 70) the comment is right, and `KeepsTheLifecycle` shows it;
* "correcting the package on an already-Selected student must not congratulate them a second time" (`drive-students.service.ts:948-952`), but an upload decides by an earlier read who is
  newly selected: with a form's selection between that read and its transaction the student is congratulated twice;
* an event's `from_status` is what was read before the UPDATE (`drive-students.service.ts:589`); two imports of one student both log it; a crash loses the events of a move;
* overlapping requests mirror in either order, and a crash not at all, so the inbox falls behind the drive;
* an invitation or import between the archiving's count (`drives.service.ts:1030`) and its update leaves students unsettled in an archived drive;
* the full edit (`:1421`) saves a drive it has loaded and writes a status change back.

Packages (`placement_packages`), where the request's numbers are compared and rounded ones stored (`entities/drive-student.entity.ts:112-122`, `dto/selection-package.schema.ts:8-11`)
* a bound of 4.999 below a figure of 5 is accepted and stored as 5.00 beside 5.00, and a positive 0.004 as 0.00: `RecordedInOrder` claims neither strict order nor a positive figure;
* a drive's range can so be stored with equal ends, which the drive's own form would refuse, or a figure as zero; of both the sheet refuses the bare roll numbers it should fill in (`BareRollsSuffice` names the exception).

Exports (`exports`): conditions on `trouble`
* concurrent creates exceed the limit (`export-jobs.service.ts:95`);
* a worker slower than 30 minutes revives the job the cleanup has failed (`:134`); nobody was told of that failure, so `ToldStands` is not contradicted;
* a crash between upload and update, or a failing delete, leaves a file no row names.

Timetables (`timetables`): conditions on `noise`
* replacing or clearing a cell nulls the entry of the sessions seeded from it; every later publish takes them for ad-hoc classes, so they survive the
  wipe although nothing plans them any more (`timetables.service.ts:925`, against the comments at `session-seeder.service.ts:314` and `timetables.service.ts:310`);
* publishing another template on a day with marked classes stacks its class on theirs, as `loadOccupiedSlots` compares periods and each template has its own
  ("Don't stack a fresh class on a slot ...");
* that comparison looks at the first period of a marked class, so a class in its second period is seeded beside it;
* `savePeriods` re-orders or drops periods under merged classes, which then run into each other (`"reshaped"` covers any change of the list of periods and any class cut short, more than what does the harm);
* two overlapping publishes mix the classes of two templates; `upsertEntry` checks against periods it read before its transaction (`:834`);
* `remove` leaves "completed/cancelled sessions as history", but their period is ON DELETE RESTRICT, so the template cannot be removed at all while there are any;
* a session moved within the week is still wiped by the next publish; a moved, added or re-opened class may stand beside another;
* declaring a holiday reads the scheduled sessions of its range and then cancels them by id (`admin/holidays/holidays.service.ts:142`): a session marked in between is cancelled with its marks, and a publish that
  runs meanwhile does not see the holiday.  The model takes the two as one step and does not have this.

## What is not modelled

* Formats, wording, validation of single fields, pagination, the content of notifications.
* SQL reports and projections (analytics, adjustments, dashboards, query language): they keep no state.
* Bulk session operations; teachers' allocation, the default template, faculty of a course and previews of a timetable.
* The clash checks of substitutions and moves (`class-sessions.service.ts:282`, `:679`): advisory reads without a lock.
* One-time codes of guardians and administrators; the employee's sign-in, which repeats the student's.
* The Redis denylist of access tokens: best-effort and time-limited; AuthSessions states what the database holds.
* Deletion of a drive, attachments, bonds, locations and eligibility rules of drives.
* Exam marks: planned.
* Permissions other than approver sets; they are read per request from a cache.

## Plan

Done, with proofs: RequestLifecycle, ApprovalRequests, StudentLeaves, CompanyApprovals,
AttendanceMarking, AuthSessions, PlacementLifecycle and DriveStudents, PlacementPackages, AccountCredentials, ExportJobs and
Timetables.  Next, in this order:

1. `ExamMarks` — staging, validation count before the lock (`exam-marks.service.ts:479`), full-replace commit.
2. Bulk cancel and substitute over the sessions of Timetables, composed with AttendanceMarking.
3. RBAC — the permission cache and its invalidation.
