--------------------------- MODULE DriveStudents ---------------------------
(***************************************************************************)
(* One placement drive and the students it lists                           *)
(* (employee/drive-management/drive-students.service.ts, drives.service.ts,*)
(* drive-auto-reject.service.ts, student/placements and the inbox mirror   *)
(* student/approvals/student-approvals-sync.service.ts).                   *)
(*                                                                         *)
(* A request reads, then runs one UPDATE that checks the status again, then*)
(* inserts its audit events, then mirrors into the student's inbox: four   *)
(* statements and no transaction.  Only the sweep and the selection sheet  *)
(* are transactions.  What is in a package is PlacementPackages' subject:  *)
(* here it is recorded or not.  Whether eligibility is complete, which the *)
(* move to ready_to_publish asks, may be so at any time.                   *)
(***************************************************************************)
EXTENDS Integers, Sequences, FiniteSets

CONSTANTS Students,
          Listed,     \* those who are on the drive's list from the start
          Requests,   \* the requests the server works on at a time
          MaxCalls,   \* how many requests arrive in all
          LastDate    \* registration dates, and the clock, end here

ASSUME DriveAssumption == Listed \subseteq Students /\ MaxCalls \in Nat /\ LastDate \in Nat

VARIABLES drive,          \* its status and registration_end_date
          clock,
          statusTrail,    \* drive_status_events
          status, rowId, responded, package,   \* drive_students
          trail,          \* drive_student_events of each row
          inbox,          \* student_approvals
          congratulated,  \* how often a student was told of being selected
          pc, job, calls,
          past,           \* history: the statuses each row really took
          noise           \* history: whether requests overlapped, or the server crashed

rows == <<status, rowId, responded, package>>
driveVars == <<drive, clock, statusTrail>>
driveStudentVars == <<drive, clock, statusTrail, status, rowId, responded, package, trail, inbox,
                      congratulated, pc, job, calls, past, noise>>

Outcomes == {"not_attended", "selected", "not_selected"}
Invitable == {"imported", "denied", "revoked"}
Revocable == {"invited", "accepted"}
Unsettled == {"imported", "invited", "accepted"}
Standings == {"none", "imported", "invited", "accepted", "denied", "revoked"} \cup Outcomes

DriveStatuses == {"draft", "ready_to_publish", "published", "archived"}

\* DRIVE_STATUS_TRANSITIONS
DriveMoves == {<<"draft", "ready_to_publish">>, <<"ready_to_publish", "draft">>,
               <<"ready_to_publish", "published">>, <<"published", "archived">>}

\* driveStatusToCore
Core(s) == IF s = "invited" THEN "pending"
           ELSE IF s = "denied" THEN "rejected"
           ELSE IF s = "revoked" THEN "cancelled" ELSE "approved"

Event(action, from, to) == [action |-> action, from |-> from, to |-> to]

NoJob == [op |-> "none"]

DriveTypeOK ==
  /\ drive \in [status : DriveStatuses, closes : 1 .. LastDate] /\ clock \in 0 .. LastDate
  /\ status \in [Students -> Standings]
  /\ rowId \in [Students -> Nat]
  /\ responded \in [Students -> BOOLEAN] /\ package \in [Students -> BOOLEAN]
  /\ inbox \in [Students -> {"none", "pending", "approved", "rejected", "cancelled"}]
  /\ congratulated \in [Students -> Nat]
  /\ pc \in [Requests -> {"idle", "insert", "reread", "write", "log", "mirror",
                          "setStatus", "logStatus", "load", "save"}]
  /\ \A r \in Requests : pc[r] = "idle" <=> job[r] = NoJob
  /\ calls \in 0 .. MaxCalls /\ noise \subseteq {"overlap", "crash"}

\* A drive that goes on; its list has been imported.
DriveInit ==
  /\ drive \in [status : DriveStatuses \ {"archived"}, closes : 1 .. LastDate]
  /\ clock = 0 /\ statusTrail = <<>>
  /\ status = [s \in Students |-> IF s \in Listed THEN "imported" ELSE "none"]
  /\ rowId = [s \in Students |-> IF s \in Listed THEN 1 ELSE 0]
  /\ responded = [s \in Students |-> FALSE] /\ package = [s \in Students |-> FALSE]
  /\ trail = [s \in Students |->
                IF s \in Listed THEN <<Event("imported", "none", "imported")>> ELSE <<>>]
  /\ past = [s \in Students |-> IF s \in Listed THEN <<"imported">> ELSE <<>>]
  /\ inbox = [s \in Students |-> "none"] /\ congratulated = [s \in Students |-> 0]
  /\ pc = [r \in Requests |-> "idle"] /\ job = [r \in Requests |-> NoJob]
  /\ calls = 0 /\ noise = {}

-----------------------------------------------------------------------------
Stamp(f, S, v) == [s \in Students |-> IF s \in S THEN v ELSE f[s]]
Extend(f, S, v) == [s \in Students |-> IF s \in S THEN Append(f[s], v) ELSE f[s]]

Busy == \E r \in Requests : pc[r] # "idle"
Overlapping == noise' = IF Busy THEN noise \cup {"overlap"} ELSE noise

Begin(r, j, label) ==
  /\ pc[r] = "idle" /\ calls < MaxCalls /\ calls' = calls + 1
  /\ pc' = [pc EXCEPT ![r] = label] /\ job' = [job EXCEPT ![r] = j]
  /\ Overlapping

Continue(r, j, label) ==
  /\ pc' = [pc EXCEPT ![r] = label] /\ job' = [job EXCEPT ![r] = j]
  /\ UNCHANGED <<calls, noise>>

End(r) == Continue(r, NoJob, "idle")

Closed == drive.closes <= clock

\* What a request remembers of the rows it found: their ids and statuses.
\* Mutant: every invitation is taken for the first.
FoundImported(S) == [s \in S |-> [id |-> rowId[s], from |-> "imported"]]
Found(S) == [s \in S |-> [id |-> rowId[s], from |-> status[s]]]
In(ids, statuses) == {s \in ids : status[s] \in statuses}

\* A request that has read nothing yet knows only whom it is about.
Named(S) == [s \in S |-> [id |-> 0, from |-> "none"]]

Task(op, seen, to) == [op |-> op, seen |-> seen, to |-> to]

-----------------------------------------------------------------------------
(* The placement cell's requests: the checks and reads they begin with *)

ReadOnly == UNCHANGED <<driveVars, rows, trail, inbox, congratulated, past>>

StartImport(r, ids) ==
  /\ drive.status # "archived" /\ In(ids, {"none"}) # {}
  /\ Begin(r, Task("imported", Named(In(ids, {"none"})), "imported"), "insert")
  /\ ReadOnly

StartInvite(r, ids) ==
  /\ drive.status = "published" /\ In(ids, Invitable) # {}
  /\ Begin(r, Task("invited", Found(In(ids, Invitable)), "invited"), "write")
  /\ ReadOnly

StartRemind(r, ids) ==
  /\ drive.status # "archived" /\ In(ids, {"invited"}) # {}
  /\ Begin(r, Task("reminded", Found(In(ids, {"invited"})), "invited"), "log")
  /\ ReadOnly

\* Nothing is read of the rows before the UPDATE.
StartOutcome(r, ids, outcome) ==
  /\ drive.status # "archived"
  /\ Begin(r, Task("outcome", Named(ids), outcome), "write")
  /\ ReadOnly

StartUpdateSelection(r, s) ==
  /\ drive.status # "archived"
  /\ Begin(r, Task("selection_updated", Named({s}), "selected"), "write")
  /\ ReadOnly

\* The sheet is refused unless every student is accepted or selected.
StartUpload(r, ids) ==
  /\ drive.status # "archived" /\ ids = In(ids, {"accepted", "selected"})
  /\ Begin(r, Task("upload", Found(ids), "selected"), "write")
  /\ ReadOnly

StartRevoke(r, ids) ==
  /\ drive.status # "archived" /\ In(ids, Revocable) # {}
  /\ Begin(r, Task("revoked", Found(In(ids, Revocable)), "revoked"), "write")
  /\ ReadOnly

\* StudentPlacementsService: only accepting looks at the deadline.
StartAccept(r, s) ==
  /\ ~Closed
  /\ Begin(r, Task("accepted", Named({s}), "accepted"), "write")
  /\ ReadOnly

StartDeny(r, s) ==
  /\ Begin(r, Task("denied", Named({s}), "denied"), "write")
  /\ ReadOnly

-----------------------------------------------------------------------------
(* The writes *)

\* orIgnore: a student a concurrent import has added is skipped.
InsertRows(r) ==
  LET fresh == In(DOMAIN job[r].seen, {"none"}) IN
  /\ pc[r] = "insert"
  /\ status' = Stamp(status, fresh, "imported")
  /\ rowId' = [s \in Students |-> IF s \in fresh THEN rowId[s] + 1 ELSE rowId[s]]
  /\ past' = Extend(past, fresh, "imported")
  /\ Continue(r, job[r], "reread")
  /\ UNCHANGED <<driveVars, responded, package, trail, inbox, congratulated>>

\* The ids are read back, those of a concurrent import among them.
RereadRows(r) ==
  LET there == DOMAIN job[r].seen \ In(DOMAIN job[r].seen, {"none"}) IN
  /\ pc[r] = "reread"
  /\ Continue(r, Task("imported", [s \in there |-> [id |-> rowId[s], from |-> "none"]],
                      "imported"), "log")
  /\ ReadOnly

\* The rows an UPDATE returns, and what is remembered of them; none, and the
\* request is over.
Returned(r, hit, seen) ==
  IF hit = {} THEN End(r)
  ELSE Continue(r, Task(job[r].op, [s \in hit |-> seen[s]], job[r].to), "log")

SameRow(r) == {s \in DOMAIN job[r].seen : job[r].seen[s].id = rowId[s]}

\* Mutant: the UPDATE trusts the statuses read before it.
InviteAsRead(r) == SameRow(r)
InviteHits(r) == In(SameRow(r), Invitable)

\* A re-invitation starts the row afresh.  Mutant: but for the response.
AfreshButResponse(hit) == responded' = responded /\ package' = Stamp(package, hit, FALSE)
StartAfresh(hit) ==
  responded' = Stamp(responded, hit, FALSE) /\ package' = Stamp(package, hit, FALSE)

WriteInvite(r) ==
  LET hit == InviteHits(r) IN
  /\ pc[r] = "write" /\ job[r].op = "invited"
  /\ status' = Stamp(status, hit, "invited")
  /\ StartAfresh(hit)
  /\ past' = Extend(past, hit, "invited")
  /\ Returned(r, hit, job[r].seen)
  /\ UNCHANGED <<driveVars, rowId, trail, inbox, congratulated>>

WriteRevoke(r) ==
  LET hit == In(SameRow(r), Revocable) IN
  /\ pc[r] = "write" /\ job[r].op = "revoked"
  /\ status' = Stamp(status, hit, "revoked")
  /\ past' = Extend(past, hit, "revoked")
  /\ Returned(r, hit, job[r].seen)
  /\ UNCHANGED <<driveVars, rowId, responded, package, trail, inbox, congratulated>>

\* selectionColumns.  Mutant: whatever the outcome.
PackageAlways(outcome) == TRUE
PackageFor(outcome) == outcome = "selected"

\* By student, not by row; the event's from_status is the UPDATE's own.
WriteOutcome(r) ==
  LET hit == In(DOMAIN job[r].seen, {"accepted"}) IN
  /\ pc[r] = "write" /\ job[r].op = "outcome"
  /\ status' = Stamp(status, hit, job[r].to)
  /\ package' = Stamp(package, hit, PackageFor(job[r].to))
  /\ past' = Extend(past, hit, job[r].to)
  /\ Returned(r, hit, Found(hit))
  /\ UNCHANGED <<driveVars, rowId, responded, trail, inbox, congratulated>>

WriteSelection(r) ==
  LET hit == In(DOMAIN job[r].seen, {"selected"}) IN
  /\ pc[r] = "write" /\ job[r].op = "selection_updated"
  /\ package' = Stamp(package, hit, TRUE)
  /\ Returned(r, hit, Found(hit))
  /\ UNCHANGED <<driveVars, status, rowId, responded, trail, inbox, congratulated, past>>

WriteResponse(r) ==
  LET hit == In(DOMAIN job[r].seen, {"invited"}) IN
  /\ pc[r] = "write" /\ job[r].op \in {"accepted", "denied"}
  /\ status' = Stamp(status, hit, job[r].to)
  /\ responded' = Stamp(responded, hit, TRUE)
  /\ past' = Extend(past, hit, job[r].to)
  /\ Returned(r, hit, Found(hit))
  /\ UNCHANGED <<driveVars, rowId, package, trail, inbox, congratulated>>

\* One transaction: rows, events; whether a row was selected before is what
\* the validation read.  The congratulations follow the commit.
CommitUpload(r) ==
  LET seen == job[r].seen
      hit == In(DOMAIN seen, {"accepted", "selected"})
      new == {s \in hit : seen[s].from = "accepted"}
  IN
  /\ pc[r] = "write" /\ job[r].op = "upload"
  /\ status' = Stamp(status, hit, "selected") /\ package' = Stamp(package, hit, TRUE)
  /\ trail' = [s \in Students |->
                 IF s \in new THEN Append(trail[s], Event("outcome", "accepted", "selected"))
                 ELSE IF s \in hit
                 THEN Append(trail[s], Event("selection_updated", "selected", "selected"))
                 ELSE trail[s]]
  /\ congratulated' = [s \in Students |-> congratulated[s] + IF s \in new THEN 1 ELSE 0]
  /\ past' = Extend(past, In(hit, {"accepted"}), "selected")
  /\ End(r)
  /\ UNCHANGED <<driveVars, rowId, responded, inbox>>

-----------------------------------------------------------------------------
(* The audit events and the inbox *)

\* Mutant: a revocation stays out of the inbox.
MirroredButRevoked == {"invited", "accepted", "denied"}
Mirrored == {"invited", "revoked", "accepted", "denied"}

Lost(r) == {s \in DOMAIN job[r].seen : status[s] = "none" \/ rowId[s] # job[r].seen[s].id}

\* An event of a row that is gone breaks its foreign key: the insert of the
\* whole batch fails, and with it the request.
LogFails(r) ==
  /\ pc[r] = "log" /\ Lost(r) # {}
  /\ End(r) /\ ReadOnly

\* notifySelected.  Mutant: any outcome is congratulated.
ToldAny(r) == IF job[r].op = "outcome" THEN DOMAIN job[r].seen ELSE {}
Told(r) == IF job[r].op = "outcome" /\ job[r].to = "selected" THEN DOMAIN job[r].seen ELSE {}

LogEvents(r) ==
  LET seen == job[r].seen
      logged == DOMAIN seen
  IN
  /\ pc[r] = "log" /\ Lost(r) = {}
  /\ trail' = [s \in Students |->
                 IF s \in logged
                 THEN Append(trail[s], Event(job[r].op, seen[s].from, job[r].to)) ELSE trail[s]]
  /\ congratulated' = [s \in Students |-> congratulated[s] + IF s \in Told(r) THEN 1 ELSE 0]
  /\ IF job[r].op \in Mirrored THEN Continue(r, job[r], "mirror") ELSE End(r)
  /\ UNCHANGED <<driveVars, rows, inbox, past>>

SyncDrivePlacements(r) ==
  /\ pc[r] = "mirror"
  /\ inbox' = Stamp(inbox, DOMAIN job[r].seen, Core(job[r].to))
  /\ End(r)
  /\ UNCHANGED <<driveVars, rows, trail, congratulated, past>>

\* remove: one DELETE of a row still imported, its events with it.
RemoveStudent(s) ==
  /\ calls < MaxCalls /\ calls' = calls + 1 /\ Overlapping
  /\ status[s] = "imported"
  /\ status' = [status EXCEPT ![s] = "none"]
  /\ trail' = [trail EXCEPT ![s] = <<>>] /\ past' = [past EXCEPT ![s] = <<>>]
  /\ UNCHANGED <<driveVars, rowId, responded, package, inbox, congratulated, pc, job>>

-----------------------------------------------------------------------------
(* The deadline *)

Tick ==
  /\ clock < LastDate /\ clock' = clock + 1
  /\ UNCHANGED <<drive, statusTrail, rows, trail, inbox, congratulated, pc, job, calls, past, noise>>

\* Which drives the cron looks at.  Mutant: those still open.
StillOpen == clock < drive.closes
Expired == drive.closes <= clock

\* The hourly cron: one transaction.
Sweep ==
  LET late == In(Students, {"invited"}) IN
  /\ Expired /\ late # {}
  /\ status' = Stamp(status, late, "denied") /\ responded' = Stamp(responded, late, TRUE)
  /\ trail' = Extend(trail, late, Event("denied", "invited", "denied"))
  /\ inbox' = Stamp(inbox, late, Core("denied"))
  /\ past' = Extend(past, late, "denied")
  /\ Overlapping
  /\ UNCHANGED <<driveVars, rowId, package, congratulated, pc, job, calls>>

-----------------------------------------------------------------------------
(* The drive's own status *)

Archivable == In(Students, Unsettled) = {}

Allowed(from, to) == <<from, to>> \in DriveMoves /\ (to = "archived" => Archivable)

StatusTask(from, to, closes) == [op |-> "drive", from |-> from, to |-> to, closes |-> closes]

StartStatusChange(r, to) ==
  /\ Allowed(drive.status, to)
  /\ Begin(r, StatusTask(drive.status, to, drive.closes), "setStatus")
  /\ ReadOnly

SetStatus(r) ==
  /\ pc[r] = "setStatus"
  /\ drive' = [drive EXCEPT !.status = job[r].to]
  /\ Continue(r, job[r], "logStatus")
  /\ UNCHANGED <<clock, statusTrail, rows, trail, inbox, congratulated, past>>

LogStatusChange(r) ==
  /\ pc[r] = "logStatus"
  /\ statusTrail' = Append(statusTrail, <<job[r].from, job[r].to>>)
  /\ End(r)
  /\ UNCHANGED <<drive, clock, rows, trail, inbox, congratulated, past>>

\* The full edit: the stored drive is read and merged with the request (a
\* status it may name, a registration date) ...
StartEdit(r, to, closes) ==
  /\ Begin(r, StatusTask(drive.status, to, closes), "load")
  /\ ReadOnly

\* ... the transaction loads it again and checks the move from the first read ...
LoadDrive(r) ==
  LET t == job[r] IN
  /\ pc[r] = "load"
  /\ IF t.to = t.from THEN Continue(r, [t EXCEPT !.to = drive.status], "save")
     ELSE IF Allowed(t.from, t.to) THEN Continue(r, t, "save") ELSE End(r)
  /\ ReadOnly

\* ... and save writes back every column that now differs.
SaveDrive(r) ==
  LET t == job[r] IN
  /\ pc[r] = "save"
  /\ drive' = [status |-> t.to, closes |-> t.closes]
  /\ statusTrail' = IF t.from = t.to THEN statusTrail ELSE Append(statusTrail, <<t.from, t.to>>)
  /\ End(r)
  /\ UNCHANGED <<clock, rows, trail, inbox, congratulated, past>>

\* Whatever is in flight is lost between two of its statements.
Crash ==
  /\ Busy /\ noise' = noise \cup {"crash"}
  /\ pc' = [r \in Requests |-> "idle"] /\ job' = [r \in Requests |-> NoJob]
  /\ UNCHANGED <<driveVars, rows, trail, inbox, congratulated, calls, past>>

-----------------------------------------------------------------------------
CellStarts(r) ==
  \/ \E ids \in (SUBSET Students) \ {{}} :
       \/ StartImport(r, ids) \/ StartInvite(r, ids) \/ StartRemind(r, ids)
       \/ StartUpload(r, ids) \/ StartRevoke(r, ids)
       \/ \E outcome \in Outcomes : StartOutcome(r, ids, outcome)
  \/ \E s \in Students : StartUpdateSelection(r, s)
  \/ \E to \in DriveStatuses : StartStatusChange(r, to)
  \/ \E to \in DriveStatuses, closes \in 1 .. LastDate : StartEdit(r, to, closes)

StudentStarts(r) == \E s \in Students : StartAccept(r, s) \/ StartDeny(r, s)

Proceed(r) ==
  \/ InsertRows(r) \/ RereadRows(r)
  \/ WriteInvite(r) \/ WriteRevoke(r) \/ WriteOutcome(r) \/ WriteSelection(r)
  \/ WriteResponse(r) \/ CommitUpload(r)
  \/ LogFails(r) \/ LogEvents(r) \/ SyncDrivePlacements(r)
  \/ SetStatus(r) \/ LogStatusChange(r) \/ LoadDrive(r) \/ SaveDrive(r)

DriveNext ==
  \/ \E r \in Requests : CellStarts(r) \/ StudentStarts(r) \/ Proceed(r)
  \/ \E s \in Students : RemoveStudent(s)
  \/ Tick \/ Sweep \/ Crash

DriveSpec == DriveInit /\ [][DriveNext]_driveStudentVars /\ WF_driveStudentVars(Sweep)

-----------------------------------------------------------------------------
(* Properties *)

\* However the requests of the cell, the students and the cron interleave, a
\* row only ever moves along the lifecycle, and no contacted student is dropped.
Lifecycle == INSTANCE PlacementLifecycle WITH standing <- status
KeepsTheLifecycle == Lifecycle!PlacementSpec

\* What myDrives tells the student of a revoked row: a response on record means
\* that it was revoked after the student had accepted, and not before.
RevokedTellsAcceptance ==
  \A s \in Students : status[s] = "revoked" =>
    (responded[s] <=> past[s][Len(past[s]) - 1] = "accepted")

\* A package is on record of exactly the students who are selected now.
PackageOnlyOnSelected == \A s \in Students : package[s] <=> status[s] = "selected"

\* The invariant of the rows: well formed, and with a package exactly where one
\* belongs.
DriveInv == DriveTypeOK /\ PackageOnlyOnSelected

\* Whoever was congratulated is selected for good; and as long as requests do
\* not overlap, nobody is congratulated twice.
CongratulatedAreSelected ==
  \A s \in Students : congratulated[s] > 0 =>
    status[s] = "selected" /\ (noise = {} => congratulated[s] = 1)

\* How often a row moved to a status, and how often its trail says so.
TimesTaken(p, to) == Cardinality({i \in DOMAIN p : p[i] = to})
TimesAudited(t, to) == Cardinality({i \in DOMAIN t : t[i].to = to /\ t[i].from # to})

\* Unless the server dies between the UPDATE and the INSERT, every move from the
\* invitation on has its audit event, whatever else runs meanwhile.
EveryMoveIsAudited ==
  ~Busy /\ "crash" \notin noise =>
    \A s \in Students : \A to \in Standings \ {"none", "imported"} :
      TimesTaken(past[s], to) <= TimesAudited(trail[s], to)

\* The events of t that record a move tell the statuses of p in their order, each
\* starting where the one before it ended.
Records(t, p) ==
  LET moves == {i \in DOMAIN t : t[i].from # t[i].to}
      Nth(i) == Cardinality({k \in moves : k <= i})
  IN /\ Cardinality(moves) = Len(p)
     /\ \A i \in moves : /\ t[i].to = p[Nth(i)]
                         /\ t[i].from = IF Nth(i) = 1 THEN "none" ELSE p[Nth(i) - 1]

\* One request at a time, the trail is the row's history: none of its moves is
\* missing, made up or out of order.
AuditIsHistory == ~Busy /\ noise = {} => \A s \in Students : Records(trail[s], past[s])

\* The audit trail can be relied on: no move goes unrecorded, and undisturbed it
\* is the row's history.
TrailIsTrue == EveryMoveIsAudited /\ AuditIsHistory

InboxAgrees ==
  \A s \in Students :
    inbox[s] = IF status[s] \in {"none", "imported"} THEN "none" ELSE Core(status[s])

\* One request at a time, the student's inbox shows what the drive says, though
\* outcomes and selections are never mirrored.
InboxInStepWhenQuiet == ~Busy /\ noise = {} => InboxAgrees

\* An archived drive has nobody left imported, invited or accepted, as long as
\* no request falls between the archiving's count and its update.
ArchivedIsSettled ==
  noise = {} /\ drive.status = "archived" =>
    \A s \in Students : status[s] \notin {"imported", "invited", "accepted"}

\* What is stored twice agrees as long as requests come one at a time: inbox and
\* row, the drive's own status and those of its students.
AgreesWhenQuiet == InboxInStepWhenQuiet /\ ArchivedIsSettled

\* The cron settles every invitation left open at the deadline.
InvitationsSettle ==
  \A s \in Students :
    status[s] = "invited" /\ Closed ~> status[s] # "invited" \/ ~Closed
=============================================================================
