------------------------ MODULE DriveStudents_proofs ------------------------
(***************************************************************************)
(* Theorems about a placement drive, for every set of students and any     *)
(* number of requests at a time.                                           *)
(***************************************************************************)
EXTENDS DriveStudents, FiniteSetTheorems, TLAPS

\* What a request remembers of rows, or of the drive.
Seen == UNION {[S -> [id : Nat, from : Standings]] : S \in SUBSET Students}
RowOps == {"imported", "invited", "reminded", "revoked", "accepted", "denied", "outcome",
           "selection_updated", "upload"}
RowTask == [op : RowOps,
            seen : Seen, to : Standings]
DriveTask == [op : {"drive"}, from : DriveStatuses, to : DriveStatuses, closes : 1 .. LastDate]

\* The status an operation aims at.
ToFits(j) ==
  /\ j.op \in {"imported", "invited", "revoked", "accepted", "denied"} => j.to = j.op
  /\ j.op = "reminded" => j.to = "invited"
  /\ j.op = "outcome" => j.to \in Outcomes
  /\ j.op \in {"selection_updated", "upload"} => j.to = "selected"

\* Which requests stand at which statement.
Labels == {"idle", "insert", "reread", "write", "log", "mirror", "setStatus", "logStatus", "load", "save"}
FitsAt(label, j) ==
  /\ label \in Labels
  /\ label = "idle" => j = NoJob
  /\ label \in {"insert", "reread", "write", "log", "mirror"} => j \in RowTask /\ ToFits(j)
  /\ label \in {"insert", "reread"} => j.op = "imported"
  /\ label = "mirror" => j.op \in Mirrored
  /\ label \in {"setStatus", "logStatus", "load", "save"} => j \in DriveTask

JobsFit == /\ pc \in [Requests -> Labels] /\ job = [r \in Requests |-> job[r]]
           /\ \A r \in Requests : FitsAt(pc[r], job[r])

TypesFit == DriveTypeOK /\ JobsFit

-----------------------------------------------------------------------------
(* What a step does to one student's row *)

Keeps(s) == /\ status'[s] = status[s] /\ responded'[s] = responded[s]
            /\ package'[s] = package[s] /\ past'[s] = past[s]
Reselected(s) == /\ status[s] = "selected" /\ status'[s] = status[s] /\ responded'[s] = responded[s]
                 /\ package'[s] /\ past'[s] = past[s]
Enters(s) == /\ status[s] = "none" /\ status'[s] = "imported" /\ responded'[s] = responded[s]
             /\ package'[s] = package[s] /\ past'[s] = Append(past[s], "imported")
Leaves(s) == /\ status[s] = "imported" /\ status'[s] = "none" /\ responded'[s] = responded[s]
             /\ package'[s] = package[s] /\ past'[s] = <<>>
IsInvited(s) == /\ status[s] \in Invitable /\ status'[s] = "invited" /\ ~responded'[s]
                /\ ~package'[s] /\ past'[s] = Append(past[s], "invited")
IsRevoked(s) == /\ status[s] \in Revocable /\ status'[s] = "revoked" /\ responded'[s] = responded[s]
                /\ package'[s] = package[s] /\ past'[s] = Append(past[s], "revoked")
Responds(s) == /\ status[s] = "invited" /\ status'[s] \in {"accepted", "denied"} /\ responded'[s]
               /\ package'[s] = package[s] /\ past'[s] = Append(past[s], status'[s])
HasOutcome(s) == /\ status[s] = "accepted" /\ status'[s] \in Outcomes /\ responded'[s] = responded[s]
                 /\ package'[s] = (status'[s] = "selected")
                 /\ past'[s] = Append(past[s], status'[s])

RowMoves(s) == Keeps(s) \/ Reselected(s) \/ Enters(s) \/ Leaves(s) \/ IsInvited(s) \/ IsRevoked(s)
               \/ Responds(s) \/ HasOutcome(s)

RowsTyped ==
  /\ status \in [Students -> Standings] /\ rowId \in [Students -> Nat]
  /\ responded \in [Students -> BOOLEAN] /\ package \in [Students -> BOOLEAN]
  /\ DOMAIN past = Students

\* Whatever runs, each row makes one of these moves.
LEMMA RowSteps ==
  ASSUME TypesFit, RowsTyped, DriveNext
  PROVE  RowsTyped' /\ \A s \in Students : RowMoves(s)
<1> USE DEF RowsTyped, RowMoves, Stamp, Extend, In, rows
<1>1. ASSUME NEW r \in Requests, Proceed(r) PROVE RowsTyped' /\ \A s \in Students : RowMoves(s)
  <2>1. CASE InsertRows(r)
    BY <2>1 DEF InsertRows, Enters, Keeps, Standings
  <2>2. CASE WriteInvite(r)
    BY <2>2 DEF WriteInvite, InviteHits, SameRow, StartAfresh, IsInvited, Keeps, Standings, Invitable
  <2>3. CASE WriteRevoke(r)
    BY <2>3 DEF WriteRevoke, IsRevoked, Keeps, Standings
  <2>4. CASE WriteOutcome(r)
    <3>1. job[r].to \in Outcomes
      BY <2>4 DEF WriteOutcome, TypesFit, JobsFit, FitsAt, ToFits
    <3> QED BY <2>4, <3>1 DEF WriteOutcome, PackageFor, HasOutcome, Keeps, Standings
  <2>5. CASE WriteSelection(r)
    BY <2>5 DEF WriteSelection, Reselected, Keeps
  <2>6. CASE WriteResponse(r)
    <3>1. job[r].to \in {"accepted", "denied"}
      BY <2>6 DEF WriteResponse, TypesFit, JobsFit, FitsAt, ToFits
    <3> QED BY <2>6, <3>1 DEF WriteResponse, Responds, Keeps, Standings
  <2>7. CASE CommitUpload(r)
    BY <2>7 DEF CommitUpload, HasOutcome, Reselected, Keeps, Standings, Outcomes
  <2>8. CASE \/ RereadRows(r) \/ LogFails(r) \/ LogEvents(r) \/ SyncDrivePlacements(r)
             \/ SetStatus(r) \/ LogStatusChange(r) \/ LoadDrive(r) \/ SaveDrive(r)
    BY <2>8 DEF RereadRows, LogFails, LogEvents, SyncDrivePlacements, SetStatus, LogStatusChange,
                LoadDrive, SaveDrive, ReadOnly, Keeps
  <2> QED BY <1>1, <2>1, <2>2, <2>3, <2>4, <2>5, <2>6, <2>7, <2>8 DEF Proceed
<1>2. ASSUME NEW r \in Requests, CellStarts(r) \/ StudentStarts(r)
      PROVE  RowsTyped' /\ \A s \in Students : RowMoves(s)
  <2>1. ReadOnly
    BY <1>2 DEF CellStarts, StudentStarts, StartImport, StartInvite, StartRemind, StartUpload, StartRevoke,
                StartOutcome, StartUpdateSelection, StartStatusChange, StartEdit, StartAccept, StartDeny
  <2> QED BY <2>1 DEF ReadOnly, Keeps
<1>3. ASSUME NEW s \in Students, RemoveStudent(s) PROVE RowsTyped' /\ \A t \in Students : RowMoves(t)
  BY <1>3 DEF RemoveStudent, Leaves, Keeps, Standings
<1>4. CASE Sweep
  BY <1>4 DEF Sweep, Responds, Keeps, Standings
<1>5. CASE Tick \/ Crash
  BY <1>5 DEF Tick, Crash, Keeps
<1> QED BY <1>1, <1>2, <1>3, <1>4, <1>5 DEF DriveNext

-----------------------------------------------------------------------------
(* Types *)

\* What is remembered of rows is of its type, however it was found.
LEMMA FoundIsSeen == ASSUME RowsTyped, NEW S \in SUBSET Students PROVE Found(S) \in Seen
  BY DEF RowsTyped, Found, Seen

LEMMA NamedIsSeen == ASSUME NEW S \in SUBSET Students PROVE Named(S) \in Seen
  BY DEF Named, Seen, Standings

LEMMA RereadIsSeen ==
  ASSUME RowsTyped, NEW S \in SUBSET Students
  PROVE  [s \in S |-> [id |-> rowId[s], from |-> "none"]] \in Seen
  BY DEF RowsTyped, Seen, Standings

LEMMA SeenPart ==
  ASSUME NEW seen \in Seen, NEW S \in SUBSET DOMAIN seen
  PROVE  [s \in S |-> seen[s]] \in Seen /\ DOMAIN seen \subseteq Students
  BY DEF Seen

\* What a request that begins remembers of its rows is how they stand, and the
\* drive allows what it is about to do; only a reminder writes nothing before its
\* events.
Fresh(label, j) ==
  /\ label \in {"insert", "write", "log", "setStatus", "load"}
  /\ label = "log" => j.op = "reminded"
  /\ (label = "write" /\ j.op \in {"invited", "revoked", "upload"}) \/ label = "log" =>
       \A s \in DOMAIN j.seen : j.seen[s].from = status[s] /\ j.seen[s].id = rowId[s]
  /\ label = "write" /\ j.op = "invited" =>
       drive.status # "archived" /\ \A s \in DOMAIN j.seen : status[s] \in Invitable
  /\ label = "write" /\ j.op = "revoked" => \A s \in DOMAIN j.seen : status[s] \in Revocable
  /\ label = "write" /\ j.op = "upload" =>
       \A s \in DOMAIN j.seen : status[s] \in {"accepted", "selected"}
  /\ label = "log" => \A s \in DOMAIN j.seen : status[s] = "invited"
  /\ label = "insert" =>
       /\ drive.status # "archived"
       /\ \A s \in DOMAIN j.seen : status[s] = "none" /\ j.seen[s].from = "none"
  /\ label = "setStatus" /\ j.to = "archived" => Archivable

LEMMA StartsFit ==
  ASSUME TypesFit, RowsTyped, NEW r \in Requests, CellStarts(r) \/ StudentStarts(r)
  PROVE  \E j, label : Begin(r, j, label) /\ FitsAt(label, j) /\ Fresh(label, j) /\ ReadOnly
<1> USE FoundIsSeen, NamedIsSeen DEF Task, RowTask, RowOps, ToFits, Fresh, Found, Named, Standings, Outcomes, In, FitsAt, Labels
<1>1. ASSUME NEW ids \in SUBSET Students,
             \/ StartImport(r, ids) \/ StartInvite(r, ids) \/ StartRemind(r, ids)
             \/ StartUpload(r, ids) \/ StartRevoke(r, ids)
      PROVE  \E j, label : Begin(r, j, label) /\ FitsAt(label, j) /\ Fresh(label, j) /\ ReadOnly
  <2>1. CASE StartImport(r, ids)
    BY <2>1 DEF StartImport
  <2>2. CASE StartInvite(r, ids)
    BY <2>2 DEF StartInvite
  <2>3. CASE StartRemind(r, ids)
    BY <2>3 DEF StartRemind
  <2>4. CASE StartUpload(r, ids)
    BY <2>4 DEF StartUpload
  <2>5. CASE StartRevoke(r, ids)
    BY <2>5 DEF StartRevoke
  <2> QED BY <1>1, <2>1, <2>2, <2>3, <2>4, <2>5
<1>2. ASSUME NEW ids \in SUBSET Students, NEW outcome \in Outcomes, StartOutcome(r, ids, outcome)
      PROVE  \E j, label : Begin(r, j, label) /\ FitsAt(label, j) /\ Fresh(label, j) /\ ReadOnly
  BY <1>2 DEF StartOutcome
<1>3. ASSUME NEW s \in Students, StartUpdateSelection(r, s) \/ StartAccept(r, s) \/ StartDeny(r, s)
      PROVE  \E j, label : Begin(r, j, label) /\ FitsAt(label, j) /\ Fresh(label, j) /\ ReadOnly
  BY <1>3 DEF StartUpdateSelection, StartAccept, StartDeny
<1>4. ASSUME NEW to \in DriveStatuses, StartStatusChange(r, to)
      PROVE  \E j, label : Begin(r, j, label) /\ FitsAt(label, j) /\ Fresh(label, j) /\ ReadOnly
  BY <1>4 DEF StartStatusChange, Allowed, StatusTask, DriveTask, TypesFit, DriveTypeOK
<1>5. ASSUME NEW to \in DriveStatuses, NEW closes \in 1 .. LastDate, StartEdit(r, to, closes)
      PROVE  \E j, label : Begin(r, j, label) /\ FitsAt(label, j) /\ Fresh(label, j) /\ ReadOnly
  BY <1>5 DEF StartEdit, StatusTask, DriveTask, TypesFit, DriveTypeOK
<1> QED
  <2>1. CASE CellStarts(r)
    BY <2>1, <1>1, <1>2, <1>3, <1>4, <1>5 DEF CellStarts
  <2>2. CASE StudentStarts(r)
    BY <2>2, <1>3 DEF StudentStarts
  <2> QED BY <2>1, <2>2

\* A request that goes on.
LEMMA OneJob ==
  ASSUME JobsFit, NEW r \in Requests, NEW STATE j, NEW STATE label, FitsAt(label, j),
         pc' = [pc EXCEPT ![r] = label], job' = [job EXCEPT ![r] = j]
  PROVE  JobsFit'
<1>1. label \in Labels
  BY DEF FitsAt
<1>2. pc' \in [Requests -> Labels]
  BY <1>1 DEF JobsFit
<1>3. job' = [q \in Requests |-> job'[q]]
  BY DEF JobsFit
<1>4. ASSUME NEW q \in Requests PROVE FitsAt(pc'[q], job'[q])
  BY DEF JobsFit
<1> QED BY <1>2, <1>3, <1>4 DEF JobsFit

Continues(r) == \E j, label : Continue(r, j, label) /\ FitsAt(label, j)

\* An UPDATE that returns rows, or none.
LEMMA ReturnedFits ==
  ASSUME JobsFit, NEW r \in Requests, pc[r] = "write",
         NEW STATE hit, NEW STATE seen, seen \in Seen, hit \subseteq DOMAIN seen,
         Returned(r, hit, seen)
  PROVE  Continues(r)
<1>1. FitsAt("idle", NoJob) /\ FitsAt(pc[r], job[r])
  BY DEF JobsFit, FitsAt, Labels
<1>2. [s \in hit |-> seen[s]] \in Seen
  BY SeenPart
<1>3. FitsAt("log", Task(job[r].op, [s \in hit |-> seen[s]], job[r].to))
  BY <1>1, <1>2 DEF FitsAt, RowTask, ToFits, Task, Labels
<1> QED BY <1>1, <1>3 DEF Returned, Continues, End

\* Every request proceeds to a statement it fits at.
LEMMA GoesOn ==
  ASSUME TypesFit, RowsTyped, NEW r \in Requests, Proceed(r) PROVE Continues(r)
<1>0. JobsFit /\ FitsAt(pc[r], job[r]) /\ FitsAt("idle", NoJob)
  BY DEF TypesFit, JobsFit, FitsAt, Labels
<1>1. CASE InsertRows(r)
  BY <1>0, <1>1 DEF InsertRows, Continues, FitsAt, Labels
<1>2. CASE RereadRows(r)
  <2> DEFINE there == DOMAIN job[r].seen \ In(DOMAIN job[r].seen, {"none"})
             j == Task("imported", [s \in there |-> [id |-> rowId[s], from |-> "none"]], "imported")
  <2>1. job[r] \in RowTask
    BY <1>0, <1>2 DEF RereadRows, FitsAt
  <2>2. there \in SUBSET Students
    <3>1. job[r].seen \in Seen
      BY <2>1 DEF RowTask
    <3> QED BY <3>1 DEF Seen
  <2>3. [s \in there |-> [id |-> rowId[s], from |-> "none"]] \in Seen
    BY <2>2, RereadIsSeen
  <2>4. FitsAt("log", j)
    BY <2>3 DEF FitsAt, Labels, RowTask, RowOps, ToFits, Task, Standings
  <2>5. Continue(r, j, "log")
    BY <1>2 DEF RereadRows
  <2> QED BY <2>4, <2>5 DEF Continues
<1>3. ASSUME pc[r] = "write", NEW STATE hit, hit \subseteq DOMAIN job[r].seen,
             Returned(r, hit, job[r].seen) \/ Returned(r, hit, Found(hit))
      PROVE  Continues(r)
  <2>1. job[r].seen \in Seen /\ hit \in SUBSET Students
    BY <1>0, <1>3, SeenPart DEF FitsAt, RowTask, Seen
  <2>2. Found(hit) \in Seen /\ DOMAIN Found(hit) = hit
    BY <2>1, FoundIsSeen DEF Found
  <2> QED BY <1>0, <1>3, <2>1, <2>2, ReturnedFits
<1>4. CASE WriteInvite(r) \/ WriteRevoke(r) \/ WriteOutcome(r) \/ WriteSelection(r) \/ WriteResponse(r)
  <2>1. pc[r] = "write"
    BY <1>4 DEF WriteInvite, WriteRevoke, WriteOutcome, WriteSelection, WriteResponse
  <2> QED BY <2>1, <1>3, <1>4 DEF WriteInvite, WriteRevoke, WriteOutcome, WriteSelection, WriteResponse,
         InviteHits, SameRow, In
<1>5. CASE CommitUpload(r) \/ LogFails(r) \/ SyncDrivePlacements(r) \/ LogStatusChange(r) \/ SaveDrive(r)
  BY <1>0, <1>5 DEF CommitUpload, LogFails, SyncDrivePlacements, LogStatusChange, SaveDrive, End, Continues
<1>6. CASE LogEvents(r)
  BY <1>0, <1>6 DEF LogEvents, End, Continues, FitsAt, Labels
<1>7. CASE SetStatus(r)
  BY <1>0, <1>7 DEF SetStatus, Continues, FitsAt, Labels
<1>8. CASE LoadDrive(r)
  <2>1. /\ job[r] \in DriveTask /\ [job[r] EXCEPT !.to = drive.status] \in DriveTask
    BY <1>0, <1>8 DEF LoadDrive, FitsAt, DriveTask, TypesFit, DriveTypeOK
  <2>2. FitsAt("save", job[r]) /\ FitsAt("save", [job[r] EXCEPT !.to = drive.status])
    BY <2>1 DEF FitsAt, Labels
  <2> QED BY <1>0, <1>8, <2>2 DEF LoadDrive, End, Continues
<1> QED BY <1>1, <1>2, <1>4, <1>5, <1>6, <1>7, <1>8 DEF Proceed

\* Requests and variables keep their types.
LEMMA JobsStep == ASSUME TypesFit, RowsTyped, [DriveNext]_driveStudentVars PROVE JobsFit'
<1>0. JobsFit
  BY DEF TypesFit
<1>1. ASSUME NEW r \in Requests, Proceed(r) PROVE JobsFit'
  <2>1. PICK j, label : Continue(r, j, label) /\ FitsAt(label, j)
    BY <1>1, GoesOn DEF Continues
  <2> QED BY <1>0, <2>1, OneJob DEF Continue
<1>2. ASSUME NEW r \in Requests, CellStarts(r) \/ StudentStarts(r) PROVE JobsFit'
  <2>1. PICK j, label : Begin(r, j, label) /\ FitsAt(label, j)
    BY <1>2, StartsFit
  <2> QED BY <1>0, <2>1, OneJob DEF Begin
<1>3. CASE Crash
  BY <1>0, <1>3 DEF Crash, JobsFit, FitsAt, Labels
<1>4. ASSUME UNCHANGED <<pc, job>> PROVE JobsFit'
  BY <1>0, <1>4 DEF JobsFit
<1> QED BY <1>1, <1>2, <1>3, <1>4 DEF DriveNext, RemoveStudent, Tick, Sweep, driveStudentVars

LEMMA TypesStep ==
  ASSUME TypesFit, RowsTyped, [DriveNext]_driveStudentVars PROVE TypesFit'
<1>1. JobsFit'
  BY JobsStep
<1>2. RowsTyped'
  BY RowSteps DEF RowsTyped, driveStudentVars, rows
<1>3. /\ drive' \in [status : DriveStatuses, closes : 1 .. LastDate] /\ clock' \in 0 .. LastDate
      /\ inbox' \in [Students -> {"none", "pending", "approved", "rejected", "cancelled"}]
      /\ congratulated' \in [Students -> Nat]
      /\ calls' \in 0 .. MaxCalls /\ noise' \subseteq {"overlap", "crash"}
  <2> USE DriveAssumption DEF TypesFit, DriveTypeOK, rows, driveVars
  <2>1. ASSUME NEW r \in Requests, Proceed(r) PROVE <1>3!:
    <3>1. FitsAt(pc[r], job[r])
      BY DEF JobsFit
    <3>2. CASE LogEvents(r)
      BY <3>2 DEF LogEvents, Continue, End
    <3>3. CASE SyncDrivePlacements(r)
      BY <3>3 DEF SyncDrivePlacements, Continue, End, Stamp, Core
    <3>4. CASE SetStatus(r)
      BY <3>1, <3>4 DEF SetStatus, Continue, FitsAt, DriveTask
    <3>5. CASE SaveDrive(r)
      BY <3>1, <3>5 DEF SaveDrive, Continue, End, FitsAt, DriveTask
    <3>6. CASE CommitUpload(r)
      BY <3>6 DEF CommitUpload, Continue, End
    <3>7. CASE \/ InsertRows(r) \/ RereadRows(r) \/ WriteInvite(r) \/ WriteRevoke(r) \/ WriteOutcome(r)
               \/ WriteSelection(r) \/ WriteResponse(r) \/ LogFails(r) \/ LogStatusChange(r) \/ LoadDrive(r)
      BY <3>7 DEF InsertRows, RereadRows, WriteInvite, WriteRevoke, WriteOutcome, WriteSelection,
                  WriteResponse, LogFails, LogStatusChange, LoadDrive, Returned, End, Continue, ReadOnly
    <3> QED BY <2>1, <3>2, <3>3, <3>4, <3>5, <3>6, <3>7 DEF Proceed
  <2>2. ASSUME NEW r \in Requests, CellStarts(r) \/ StudentStarts(r) PROVE <1>3!:
    <3>1. PICK j, label : Begin(r, j, label) /\ ReadOnly
      BY <2>2, StartsFit
    <3> QED BY <3>1 DEF Begin, Overlapping, ReadOnly
  <2>3. ASSUME NEW s \in Students, RemoveStudent(s) PROVE <1>3!:
    BY <2>3 DEF RemoveStudent, Overlapping
  <2>4. CASE Tick \/ Crash
    BY <2>4 DEF Tick, Crash
  <2>5. CASE Sweep
    BY <2>5 DEF Sweep, Overlapping, Stamp, Core
  <2>6. CASE UNCHANGED driveStudentVars
    BY <2>6 DEF driveStudentVars
  <2> QED BY <2>1, <2>2, <2>3, <2>4, <2>5, <2>6 DEF DriveNext
<1>4. \A r \in Requests : (pc[r] = "idle" <=> job[r] = NoJob)'
  <2>1. \A j \in RowTask \cup DriveTask : j # NoJob
    BY DEF RowTask, DriveTask, NoJob
  <2>2. \A label, j : FitsAt(label, j) => (label = "idle" <=> j = NoJob)
    BY <2>1 DEF FitsAt, Labels
  <2> QED BY <1>1, <2>2 DEF JobsFit
<1>5. pc' \in [Requests -> Labels]
  BY <1>1 DEF JobsFit
<1> QED BY <1>1, <1>2, <1>3, <1>4, <1>5 DEF TypesFit, DriveTypeOK, RowsTyped, Labels

-----------------------------------------------------------------------------
(* The invariant of the rows *)

\* The last status a row took is the one it has; whether its student has
\* responded goes with it.
HistoryOf(s) ==
  /\ past[s] \in Seq(Standings)
  /\ status[s] # "none" => Len(past[s]) > 0 /\ past[s][Len(past[s])] = status[s]
  /\ status[s] = "invited" => ~responded[s]
  /\ status[s] = "accepted" => responded[s]
  /\ status[s] = "revoked" => Len(past[s]) > 1 /\ (responded[s] <=> past[s][Len(past[s]) - 1] = "accepted")

DriveIInv == /\ TypesFit /\ RowsTyped /\ PackageOnlyOnSelected
             /\ \A s \in Students : HistoryOf(s)

\* A drive with its list imported satisfies the invariant.
LEMMA DriveInit_IInv == DriveInit => DriveIInv
<1> SUFFICES ASSUME DriveInit PROVE DriveIInv
  OBVIOUS
<1>1. DriveTypeOK /\ RowsTyped
  BY DriveAssumption DEF DriveInit, DriveTypeOK, RowsTyped, Standings
<1>2. JobsFit
  BY DEF DriveInit, JobsFit, FitsAt, Labels
<1>3. PackageOnlyOnSelected
  BY DEF DriveInit, PackageOnlyOnSelected
<1>4. ASSUME NEW s \in Students PROVE HistoryOf(s)
  <2>1. CASE s \in Listed
    <3>1. past[s] = <<"imported">> /\ status[s] = "imported"
      BY <2>1 DEF DriveInit
    <3>2. past[s] \in Seq(Standings) /\ Len(past[s]) = 1 /\ past[s][1] = "imported"
      BY <3>1 DEF Standings
    <3> QED BY <3>1, <3>2 DEF HistoryOf
  <2>2. CASE s \notin Listed
    <3>1. past[s] = <<>> /\ status[s] = "none"
      BY <2>2 DEF DriveInit
    <3>2. past[s] \in Seq(Standings)
      BY <3>1
    <3> QED BY <3>1, <3>2 DEF HistoryOf
  <2> QED BY <2>1, <2>2
<1> QED BY <1>1, <1>2, <1>3, <1>4 DEF DriveIInv, TypesFit

\* What the end of a longer sequence is.
LEMMA Appended ==
  ASSUME NEW p \in Seq(Standings), NEW v \in Standings
  PROVE  /\ Append(p, v) \in Seq(Standings) /\ Len(Append(p, v)) = Len(p) + 1
         /\ Append(p, v)[Len(p) + 1] = v
         /\ Len(p) > 0 => Append(p, v)[Len(p)] = p[Len(p)]
         /\ Len(p) \in Nat
  OBVIOUS

\* A move of a row keeps its history and its package.
LEMMA HistoryStep ==
  ASSUME NEW s \in Students, HistoryOf(s), RowMoves(s), RowsTyped, RowsTyped',
         package[s] <=> status[s] = "selected"
  PROVE  HistoryOf(s)' /\ (package'[s] <=> status'[s] = "selected")
<1> USE DEF HistoryOf, RowsTyped, Revocable, Outcomes
<1>0. status'[s] \in Standings /\ package[s] \in BOOLEAN /\ package'[s] \in BOOLEAN
  OBVIOUS
<1>1. CASE Keeps(s) \/ Reselected(s)
  <2>1. /\ past'[s] = past[s] /\ status'[s] = status[s] /\ responded'[s] = responded[s]
        /\ package'[s] <=> status'[s] = "selected"
    BY <1>0, <1>1 DEF Keeps, Reselected
  <2> QED BY <2>1
<1>4. CASE Leaves(s)
  BY <1>0, <1>4 DEF Leaves
<1>2. CASE IsRevoked(s)
  <2>1. /\ status'[s] = "revoked" /\ past'[s] = Append(past[s], "revoked") /\ status[s] \in Revocable
        /\ responded'[s] = responded[s] /\ package'[s] = package[s]
    BY <1>2 DEF IsRevoked
  <2>2. /\ past'[s] \in Seq(Standings) /\ Len(past'[s]) = Len(past[s]) + 1 /\ Len(past[s]) > 0
        /\ past'[s][Len(past'[s])] = "revoked" /\ past'[s][Len(past'[s]) - 1] = status[s]
        /\ Len(past[s]) \in Nat
    BY <1>0, <2>1, Appended
  <2> QED BY <1>0, <2>1, <2>2
<1>3. CASE Enters(s) \/ IsInvited(s) \/ Responds(s) \/ HasOutcome(s)
  <2>1. /\ past'[s] = Append(past[s], status'[s]) /\ status'[s] \notin {"none", "revoked"}
        /\ status'[s] = "invited" => ~responded'[s]
        /\ status'[s] = "accepted" => responded'[s]
        /\ package'[s] <=> status'[s] = "selected"
    BY <1>0, <1>3 DEF Enters, IsInvited, Responds, HasOutcome
  <2>2. /\ past'[s] \in Seq(Standings) /\ Len(past'[s]) > 0 /\ past'[s][Len(past'[s])] = status'[s]
    BY <1>0, <2>1, Appended
  <2> QED BY <2>1, <2>2
<1> QED BY <1>1, <1>2, <1>3, <1>4 DEF RowMoves

\* Every step keeps the invariant.
LEMMA DriveStep == DriveIInv /\ [DriveNext]_driveStudentVars => DriveIInv'
<1> SUFFICES ASSUME DriveIInv, [DriveNext]_driveStudentVars PROVE DriveIInv'
  OBVIOUS
<1>1. TypesFit'
  BY TypesStep DEF DriveIInv
<1>2. RowsTyped' /\ \A s \in Students : RowMoves(s)
  BY RowSteps DEF DriveIInv, RowsTyped, RowMoves, Keeps, driveStudentVars, rows
<1>3. ASSUME NEW s \in Students PROVE HistoryOf(s)' /\ (package'[s] <=> status'[s] = "selected")
  BY <1>2, HistoryStep DEF DriveIInv, PackageOnlyOnSelected
<1> QED BY <1>1, <1>2, <1>3 DEF DriveIInv, PackageOnlyOnSelected

LEMMA DriveInvariant == DriveSpec => []DriveIInv
  BY DriveInit_IInv, DriveStep, PTL DEF DriveSpec

\* Types, and a package on record of exactly the selected students, for any
\* number of students and of requests that interleave (drive-students.service.ts).
THEOREM DriveRowsSound == DriveSpec => []DriveInv
<1>1. DriveIInv => DriveInv
  BY DEF DriveIInv, DriveInv, TypesFit
<1> QED BY <1>1, DriveInvariant, PTL

\* A response on a revoked row means that it was revoked after the student had
\* accepted: what myDrives makes of it is true (student-placements.service.ts).
THEOREM RevocationTellsAcceptance == DriveSpec => []RevokedTellsAcceptance
<1>1. DriveIInv => RevokedTellsAcceptance
  BY DEF DriveIInv, RevokedTellsAcceptance, HistoryOf
<1> QED BY <1>1, DriveInvariant, PTL

\* A move of a row is one the lifecycle allows.
LEMMA RowMoveIsLifecycle ==
  ASSUME NEW s \in Students, RowMoves(s)
  PROVE  status'[s] = status[s] \/ status'[s] \in Lifecycle!After(status[s])
  BY DEF RowMoves, Keeps, Reselected, Enters, Leaves, IsInvited, IsRevoked, Responds, HasOutcome,
         Invitable, Revocable, Outcomes, Lifecycle!After, Lifecycle!Outcomes

\* The four-statement requests, the selection sheet and the cron implement the
\* lifecycle: each step moves a batch of students along it, or none.
THEOREM DriveKeepsLifecycle == DriveSpec => KeepsTheLifecycle
<1>1. DriveInit => Lifecycle!PlacementInit
  BY DEF DriveInit, Lifecycle!PlacementInit
<1>2. DriveIInv /\ [DriveNext]_driveStudentVars => [Lifecycle!PlacementNext]_status
  <2> SUFFICES ASSUME DriveIInv, [DriveNext]_driveStudentVars PROVE Lifecycle!PlacementNext
    OBVIOUS
  <2> DEFINE batch == {s \in Students : status'[s] # status[s]}
  <2>1. RowsTyped' /\ \A s \in Students : RowMoves(s)
    BY RowSteps DEF DriveIInv, RowsTyped, RowMoves, Keeps, driveStudentVars, rows
  <2>2. Lifecycle!Advance(batch)
    BY <2>1, RowMoveIsLifecycle DEF Lifecycle!Advance, RowsTyped, Standings, Outcomes,
       Lifecycle!Standings, Lifecycle!Outcomes
  <2> QED BY <2>2 DEF Lifecycle!PlacementNext
<1> QED BY <1>1, <1>2, DriveInvariant, PTL DEF DriveSpec, KeepsTheLifecycle, Lifecycle!PlacementSpec

-----------------------------------------------------------------------------
(* Congratulations *)

TellsSelected(r) == pc[r] = "log" /\ job[r].op = "outcome" /\ job[r].to = "selected"

\* Who is about to be congratulated has been selected.
TellFits == \A r \in Requests : TellsSelected(r) =>
               \A s \in DOMAIN job[r].seen : status[s] = "selected"

\* Without overlap, a request is alone, and what it has read still holds.
AloneFits ==
  noise = {} =>
    /\ \A r, q \in Requests : pc[r] # "idle" /\ pc[q] # "idle" => r = q
    /\ \A r \in Requests : pc[r] = "write" /\ job[r].op = "upload" =>
         \A s \in DOMAIN job[r].seen : job[r].seen[s].from = status[s]
    /\ \A r \in Requests : TellsSelected(r) => \A s \in DOMAIN job[r].seen : congratulated[s] = 0

TellIInv == DriveIInv /\ TellFits /\ AloneFits /\ CongratulatedAreSelected

\* Selection is final.
LEMMA SelectedStays ==
  ASSUME DriveIInv, [DriveNext]_driveStudentVars, NEW s \in Students, status[s] = "selected"
  PROVE  status'[s] = "selected"
<1>1. RowMoves(s)
  BY RowSteps DEF DriveIInv, RowsTyped, RowMoves, Keeps, driveStudentVars, rows
<1> QED BY <1>1 DEF RowMoves, Keeps, Reselected, Enters, Leaves, IsInvited, IsRevoked, Responds, HasOutcome,
         Invitable, Revocable

\* A request that goes on leaves the others where they are, and is past its
\* write; it congratulates next only those its own UPDATE has selected.
LEMMA ProceedTells ==
  ASSUME DriveIInv, NEW r \in Requests, Proceed(r)
  PROVE  /\ pc[r] # "idle" /\ noise' = noise
         /\ \A q \in Requests \ {r} : pc'[q] = pc[q] /\ job'[q] = job[q]
         /\ pc'[r] # "write"
         /\ TellsSelected(r)' =>
              /\ congratulated' = congratulated
              /\ \A s \in DOMAIN job'[r].seen :
                   s \in Students /\ status[s] = "accepted" /\ status'[s] = "selected"
<1> USE DEF Continue, End
<1>0. /\ pc \in [Requests -> Labels] /\ job = [q \in Requests |-> job[q]]
      /\ FitsAt(pc[r], job[r]) /\ DOMAIN status = Students
  BY DEF DriveIInv, TypesFit, JobsFit, RowsTyped
<1>1. CASE WriteOutcome(r)
  <2> DEFINE hit == In(DOMAIN job[r].seen, {"accepted"})
  <2>1. /\ pc[r] = "write" /\ congratulated' = congratulated /\ noise' = noise
        /\ Returned(r, hit, Found(hit)) /\ status' = Stamp(status, hit, job[r].to)
    BY <1>1 DEF WriteOutcome, Returned
  <2>2. hit \subseteq Students /\ \A s \in hit : status[s] = "accepted"
    <3>1. job[r].seen \in Seen
      BY <1>0, <2>1 DEF FitsAt, RowTask
    <3> QED BY <3>1 DEF In, Seen
  <2> HIDE DEF hit
  <2>3. CASE hit = {}
    BY <1>0, <2>1, <2>3 DEF Returned, TellsSelected
  <2>4. CASE hit # {}
    <3>1. /\ pc' = [pc EXCEPT ![r] = "log"]
          /\ job' = [job EXCEPT ![r] = Task(job[r].op, [s \in hit |-> Found(hit)[s]], job[r].to)]
      BY <2>1, <2>4 DEF Returned
    <3>2. /\ job'[r].to = job[r].to /\ DOMAIN job'[r].seen = hit
          /\ \A q \in Requests \ {r} : pc'[q] = pc[q] /\ job'[q] = job[q]
      BY <1>0, <3>1 DEF Task
    <3> QED BY <1>0, <2>1, <2>2, <3>1, <3>2 DEF TellsSelected, Stamp
  <2> QED BY <2>3, <2>4
<1>2. /\ noise' = noise
      /\ \A q \in Requests \ {r} : pc'[q] = pc[q] /\ job'[q] = job[q]
  <2>1. PICK j, label : Continue(r, j, label)
    BY GoesOn DEF Continues, DriveIInv
  <2> QED BY <1>0, <2>1
<1>3. CASE WriteInvite(r) \/ WriteRevoke(r) \/ WriteSelection(r) \/ WriteResponse(r)
  <2>1. PICK hit, seen : Returned(r, hit, seen) /\ pc[r] = "write" /\ job[r].op # "outcome"
    BY <1>3 DEF WriteInvite, WriteRevoke, WriteSelection, WriteResponse
  <2>2. \/ pc'[r] = "idle"
        \/ pc'[r] = "log" /\ job'[r].op = job[r].op
    BY <1>0, <2>1 DEF Returned, Task
  <2> QED BY <1>2, <2>1, <2>2 DEF TellsSelected
<1>4. CASE RereadRows(r)
  <2>1. pc[r] = "reread" /\ pc'[r] = "log" /\ job'[r].op = "imported"
    BY <1>0, <1>4 DEF RereadRows, Task
  <2> QED BY <1>2, <2>1 DEF TellsSelected
<1>5. CASE \/ InsertRows(r) \/ CommitUpload(r) \/ LogFails(r) \/ LogEvents(r)
           \/ SyncDrivePlacements(r) \/ SetStatus(r) \/ LogStatusChange(r) \/ LoadDrive(r) \/ SaveDrive(r)
  <2>1. pc[r] # "idle" /\ pc'[r] \in {"idle", "reread", "mirror", "logStatus", "save"}
    BY <1>0, <1>5 DEF InsertRows, CommitUpload, LogFails, LogEvents, SyncDrivePlacements, SetStatus,
       LogStatusChange, LoadDrive, SaveDrive
  <2> QED BY <1>2, <2>1 DEF TellsSelected
<1> QED BY <1>1, <1>3, <1>4, <1>5 DEF Proceed

\* Who is congratulated is selected, and is congratulated once.
LEMMA CongratulatedStep ==
  ASSUME TellIInv, [DriveNext]_driveStudentVars PROVE CongratulatedAreSelected'
<1>0. /\ congratulated \in [Students -> Nat] /\ congratulated' \in [Students -> Nat]
      /\ \A s \in Students : status[s] = "selected" => status'[s] = "selected"
      /\ CongratulatedAreSelected /\ DriveIInv
  BY SelectedStays, DriveStep DEF TellIInv, DriveIInv, TypesFit, DriveTypeOK
<1>1. ASSUME NEW r \in Requests, LogEvents(r) PROVE CongratulatedAreSelected'
  <2>1. /\ noise' = noise
        /\ congratulated' = [s \in Students |-> congratulated[s] + IF s \in Told(r) THEN 1 ELSE 0]
    BY <1>1 DEF LogEvents, Continue, End
  <2>2. \A s \in Told(r) : status[s] = "selected" /\ (noise = {} => congratulated[s] = 0)
    BY <1>1 DEF Told, LogEvents, TellIInv, TellFits, AloneFits, TellsSelected
  <2> QED BY <1>0, <2>1, <2>2 DEF CongratulatedAreSelected
<1>2. ASSUME NEW r \in Requests, CommitUpload(r) PROVE CongratulatedAreSelected'
  <2> DEFINE hit == In(DOMAIN job[r].seen, {"accepted", "selected"})
             new == {s \in hit : job[r].seen[s].from = "accepted"}
  <2>1. /\ noise' = noise /\ status' = Stamp(status, hit, "selected")
        /\ congratulated' = [s \in Students |-> congratulated[s] + IF s \in new THEN 1 ELSE 0]
    BY <1>2 DEF CommitUpload, Continue, End
  <2>2. \A s \in new : noise = {} => status[s] = "accepted"
    BY <1>2 DEF CommitUpload, TellIInv, AloneFits, In
  <2>3. new \subseteq hit
    OBVIOUS
  <2> HIDE DEF hit, new
  <2> QED BY <1>0, <2>1, <2>2, <2>3 DEF CongratulatedAreSelected, Stamp
<1>3. ASSUME congratulated' = congratulated, noise \subseteq noise' PROVE CongratulatedAreSelected'
  BY <1>0, <1>3 DEF CongratulatedAreSelected
<1>4. ASSUME NEW r \in Requests, CellStarts(r) \/ StudentStarts(r) PROVE CongratulatedAreSelected'
  <2>1. PICK j, label : Begin(r, j, label) /\ ReadOnly
    BY <1>4, StartsFit DEF TellIInv, DriveIInv
  <2> QED BY <1>3, <2>1 DEF Begin, Overlapping, ReadOnly
<1>5. ASSUME NEW r \in Requests, Proceed(r), ~LogEvents(r), ~CommitUpload(r)
      PROVE  CongratulatedAreSelected'
  BY <1>3, <1>5, <1>0, ProceedTells DEF Proceed, InsertRows, RereadRows, WriteInvite, WriteRevoke, WriteOutcome, WriteSelection,
     WriteResponse, LogFails, SyncDrivePlacements, SetStatus, LogStatusChange, LoadDrive, SaveDrive, ReadOnly
<1> QED BY <1>1, <1>2, <1>3, <1>4, <1>5
        DEF DriveNext, RemoveStudent, Tick, Sweep, Crash, Overlapping, driveStudentVars

\* Every step keeps all of it.
LEMMA TellStep == TellIInv /\ [DriveNext]_driveStudentVars => TellIInv'
<1> SUFFICES ASSUME TellIInv, [DriveNext]_driveStudentVars PROVE TellIInv'
  OBVIOUS
<1>0. /\ DriveIInv /\ DriveIInv' /\ TellFits /\ AloneFits /\ CongratulatedAreSelected
      /\ CongratulatedAreSelected'
      /\ \A s \in Students : status[s] = "selected" => status'[s] = "selected"
      /\ \A r \in Requests : pc[r] \in Labels /\ FitsAt(pc[r], job[r])
      /\ pc \in [Requests -> Labels] /\ job = [r \in Requests |-> job[r]]
      /\ congratulated \in [Students -> Nat]
  BY DriveStep, CongratulatedStep, SelectedStays
     DEF TellIInv, DriveIInv, TypesFit, JobsFit, DriveTypeOK, FitsAt
<1>00. \A r \in Requests : TellsSelected(r) => DOMAIN job[r].seen \subseteq Students
  <2>1. ASSUME NEW r \in Requests, TellsSelected(r) PROVE DOMAIN job[r].seen \subseteq Students
    <3>1. job[r].seen \in Seen
      BY <1>0, <2>1 DEF FitsAt, RowTask, TellsSelected
    <3> QED BY <3>1 DEF Seen
  <2> QED BY <2>1
<1>1. ASSUME NEW r \in Requests, Proceed(r) PROVE TellFits' /\ AloneFits'
  <2>1. /\ pc[r] # "idle" /\ noise' = noise
        /\ \A q \in Requests \ {r} : pc'[q] = pc[q] /\ job'[q] = job[q]
        /\ pc'[r] # "write"
        /\ TellsSelected(r)' =>
              /\ congratulated' = congratulated
              /\ \A s \in DOMAIN job'[r].seen :
                   s \in Students /\ status[s] = "accepted" /\ status'[s] = "selected"
    BY <1>0, <1>1, ProceedTells
  <2>2. TellFits'
    BY <1>0, <1>00, <2>1 DEF TellFits, TellsSelected
  <2>3. noise = {} => \A q \in Requests \ {r} : pc'[q] = "idle"
    BY <1>0, <2>1 DEF AloneFits
  <2>4. \A s \in Students : noise = {} /\ status[s] = "accepted" => congratulated[s] = 0
    BY <1>0 DEF CongratulatedAreSelected
  <2> QED BY <2>1, <2>2, <2>3, <2>4 DEF AloneFits, TellsSelected
<1>2. ASSUME NEW r \in Requests, CellStarts(r) \/ StudentStarts(r) PROVE TellFits' /\ AloneFits'
  <2>1. PICK j, label : Begin(r, j, label) /\ FitsAt(label, j) /\ Fresh(label, j) /\ ReadOnly
    BY <1>0, <1>2, StartsFit DEF DriveIInv
  <2>2. /\ \A q \in Requests \ {r} : pc'[q] = pc[q] /\ job'[q] = job[q]
        /\ pc'[r] = label /\ job'[r] = j /\ status' = status /\ congratulated' = congratulated
        /\ noise' = {} => noise = {} /\ \A q \in Requests : pc[q] = "idle"
    BY <1>0, <2>1 DEF Begin, Overlapping, Busy, ReadOnly, rows
  <2>3. ~TellsSelected(r)'
    BY <2>1, <2>2 DEF TellsSelected, Fresh
  <2>4. TellFits'
    BY <1>0, <2>2, <2>3 DEF TellFits, TellsSelected
  <2> QED BY <2>1, <2>2, <2>3, <2>4 DEF AloneFits, TellsSelected, Fresh
<1>3. ASSUME \/ Sweep \/ \E s \in Students : RemoveStudent(s) PROVE TellFits' /\ AloneFits'
  <2>1. /\ pc' = pc /\ job' = job /\ Overlapping
    BY <1>3 DEF Sweep, RemoveStudent
  <2>2. TellFits'
    BY <1>0, <1>00, <2>1 DEF TellFits, TellsSelected
  <2> QED BY <2>1, <2>2 DEF AloneFits, TellsSelected, Overlapping, Busy
<1>4. ASSUME Crash PROVE TellFits' /\ AloneFits'
  BY <1>4 DEF Crash, TellFits, AloneFits, TellsSelected
<1>5. ASSUME Tick \/ UNCHANGED driveStudentVars PROVE TellFits' /\ AloneFits'
  BY <1>0, <1>5 DEF Tick, driveStudentVars, rows, TellFits, AloneFits, TellsSelected
<1> QED BY <1>0, <1>1, <1>2, <1>3, <1>4, <1>5 DEF TellIInv, DriveNext

\* Nobody is congratulated at first.
LEMMA DriveInit_TellIInv == DriveInit => TellIInv
<1> SUFFICES ASSUME DriveInit PROVE TellIInv
  OBVIOUS
<1>1. DriveIInv
  BY DriveInit_IInv
<1>2. TellFits /\ AloneFits /\ CongratulatedAreSelected
  BY DEF DriveInit, TellFits, AloneFits, TellsSelected, CongratulatedAreSelected
<1> QED BY <1>1, <1>2 DEF TellIInv

\* Nobody is congratulated without being selected for good, and without
\* overlapping requests nobody twice (notifySelected).
THEOREM CongratulationsAreTrue == DriveSpec => []CongratulatedAreSelected
<1>1. TellIInv => CongratulatedAreSelected
  BY DEF TellIInv
<1> QED BY <1>1, DriveInit_TellIInv, TellStep, PTL DEF DriveSpec

-----------------------------------------------------------------------------
(* One request at a time: the inbox and the archived drive *)

LEMMA TellInvariant == DriveSpec => []TellIInv
  BY DriveInit_TellIInv, TellStep, PTL DEF DriveSpec

\* Where a request that proceeds can be next, and by which statement.
LEMMA ProceedLabels ==
  ASSUME DriveIInv, NEW r \in Requests, Proceed(r)
  PROVE  /\ pc'[r] \in {"idle", "reread", "log", "mirror", "logStatus", "save"}
         /\ pc'[r] = "reread" => InsertRows(r)
         /\ pc'[r] = "log" => RereadRows(r) \/ WriteInvite(r) \/ WriteRevoke(r) \/ WriteOutcome(r)
                              \/ WriteSelection(r) \/ WriteResponse(r)
         /\ pc'[r] = "mirror" => LogEvents(r)
         /\ pc'[r] = "save" => LoadDrive(r)
<1>0. r \in DOMAIN pc
  BY DEF DriveIInv, TypesFit, JobsFit
<1> USE <1>0 DEF Continue, End, Returned
<1>1. CASE InsertRows(r) \/ RereadRows(r)
  BY <1>1 DEF InsertRows, RereadRows
<1>2. CASE WriteInvite(r) \/ WriteRevoke(r) \/ WriteOutcome(r) \/ WriteSelection(r) \/ WriteResponse(r)
  <2>1. pc'[r] \in {"idle", "log"}
    BY <1>2 DEF WriteInvite, WriteRevoke, WriteOutcome, WriteSelection, WriteResponse
  <2> QED BY <1>2, <2>1
<1>3. CASE CommitUpload(r) \/ LogFails(r) \/ SyncDrivePlacements(r) \/ LogStatusChange(r) \/ SaveDrive(r)
  <2>1. pc'[r] = "idle"
    BY <1>3 DEF CommitUpload, LogFails, SyncDrivePlacements, LogStatusChange, SaveDrive
  <2> QED BY <2>1
<1>4. CASE LogEvents(r)
  <2>1. pc'[r] \in {"idle", "mirror"}
    BY <1>4 DEF LogEvents
  <2> QED BY <1>4, <2>1
<1>5. CASE SetStatus(r)
  BY <1>5 DEF SetStatus
<1>6. CASE LoadDrive(r)
  <2>1. pc'[r] \in {"idle", "save"}
    BY <1>6 DEF LoadDrive
  <2> QED BY <1>6, <2>1
<1> QED BY <1>1, <1>2, <1>3, <1>4, <1>5, <1>6 DEF Proceed

\* A row becomes unsettled only by an import or an invitation.
LEMMA OnlyTheseUnsettle ==
  ASSUME DriveIInv, DriveNext, ~\E r \in Requests : InsertRows(r) \/ WriteInvite(r)
  PROVE  \A s \in Students : status'[s] \in Unsettled => status[s] \in Unsettled
<1> USE DEF Unsettled, In, Stamp, rows
<1>1. ASSUME NEW r \in Requests, Proceed(r)
      PROVE  \A s \in Students : status'[s] \in Unsettled => status[s] \in Unsettled
  <2>1. CASE WriteRevoke(r) \/ CommitUpload(r)
    BY <2>1 DEF WriteRevoke, CommitUpload
  <2>2. CASE WriteOutcome(r)
    BY <2>2 DEF WriteOutcome
  <2>3. CASE WriteResponse(r)
    BY <2>3 DEF WriteResponse
  <2>4. CASE ~(WriteRevoke(r) \/ CommitUpload(r) \/ WriteOutcome(r) \/ WriteResponse(r))
    BY <1>1, <2>4 DEF Proceed, RereadRows, LogFails, LogEvents, SyncDrivePlacements, WriteSelection,
       SetStatus, LogStatusChange, LoadDrive, SaveDrive, ReadOnly
  <2> QED BY <2>1, <2>2, <2>3, <2>4
<1>2. ASSUME NEW r \in Requests, CellStarts(r) \/ StudentStarts(r) PROVE status' = status
  <2>1. ReadOnly
    BY <1>2, StartsFit DEF DriveIInv
  <2> QED BY <2>1 DEF ReadOnly
<1>3. ASSUME NEW s \in Students, RemoveStudent(s) PROVE \A t \in Students \ {s} : status'[t] = status[t]
  BY <1>3 DEF RemoveStudent, DriveIInv, RowsTyped
<1>4. ASSUME NEW s \in Students, RemoveStudent(s) PROVE status[s] \in Unsettled
  BY <1>4 DEF RemoveStudent
<1>5. CASE Sweep
  BY <1>5 DEF Sweep
<1>6. CASE Tick \/ Crash
  BY <1>6 DEF Tick, Crash
<1> QED BY <1>1, <1>2, <1>3, <1>4, <1>5, <1>6 DEF DriveNext

\* What lets an archiving that comes alone rely on its count of unsettled rows.
ArchiveFits ==
  noise = {} =>
    /\ \A r \in Requests : pc[r] = "insert" \/ (pc[r] = "write" /\ job[r].op = "invited") =>
         drive.status # "archived"
    /\ \A r \in Requests : pc[r] \in {"setStatus", "save"} /\ job[r].to = "archived" => Archivable
    /\ drive.status = "archived" => Archivable

\* A step that comes while another request is under way, or that ends one by a
\* crash, leaves a trace in noise.
LEMMA AloneStep ==
  ASSUME TellIInv, [DriveNext]_driveStudentVars, noise' = {}
  PROVE  /\ noise = {}
         /\ \/ \E r \in Requests : Proceed(r) /\ \A q \in Requests \ {r} : pc[q] = "idle" /\ pc'[q] = "idle"
            \/ /\ \A q \in Requests : pc[q] = "idle"
               /\ \E r \in Requests : \E j, label :
                    /\ Begin(r, j, label) /\ FitsAt(label, j) /\ Fresh(label, j) /\ ReadOnly
                    /\ pc'[r] = label /\ job'[r] = j
                    /\ \A q \in Requests \ {r} : pc'[q] = "idle"
            \/ /\ \A q \in Requests : pc[q] = "idle" /\ pc'[q] = "idle"
               /\ Sweep \/ \E s \in Students : RemoveStudent(s)
            \/ Tick \/ UNCHANGED driveStudentVars
<1>0. /\ DriveIInv /\ pc \in [Requests -> Labels] /\ job = [r \in Requests |-> job[r]]
      /\ noise = {} => \A r, q \in Requests : pc[r] # "idle" /\ pc[q] # "idle" => r = q
  BY DEF TellIInv, DriveIInv, TypesFit, JobsFit, AloneFits
<1>1. ASSUME NEW r \in Requests, Proceed(r)
      PROVE  noise = {} /\ \A q \in Requests \ {r} : pc[q] = "idle" /\ pc'[q] = "idle"
  BY <1>0, <1>1, ProceedTells
<1>2. ASSUME NEW r \in Requests, CellStarts(r) \/ StudentStarts(r)
      PROVE  /\ noise = {} /\ \A q \in Requests : pc[q] = "idle"
             /\ \E j, label :
                    /\ Begin(r, j, label) /\ FitsAt(label, j) /\ Fresh(label, j) /\ ReadOnly
                    /\ pc'[r] = label /\ job'[r] = j
                    /\ \A q \in Requests \ {r} : pc'[q] = "idle"
  <2>1. PICK j, label : Begin(r, j, label) /\ FitsAt(label, j) /\ Fresh(label, j) /\ ReadOnly
    BY <1>0, <1>2, StartsFit DEF DriveIInv
  <2>2. noise = {} /\ \A q \in Requests : pc[q] = "idle"
    BY <2>1 DEF Begin, Overlapping, Busy
  <2>3. pc'[r] = label /\ job'[r] = j /\ \A q \in Requests \ {r} : pc'[q] = "idle"
    BY <1>0, <2>1, <2>2 DEF Begin
  <2> QED BY <2>1, <2>2, <2>3
<1>3. ASSUME Sweep \/ \E s \in Students : RemoveStudent(s)
      PROVE  noise = {} /\ \A q \in Requests : pc[q] = "idle" /\ pc'[q] = "idle"
  BY <1>3 DEF Sweep, RemoveStudent, Overlapping, Busy
<1>4. ~Crash
  BY DEF Crash
<1>5. Tick \/ UNCHANGED driveStudentVars => noise = {}
  BY DEF Tick, driveStudentVars
<1> QED BY <1>1, <1>2, <1>3, <1>4, <1>5 DEF DriveNext

\* Every step keeps what an archiving relies on.
LEMMA ArchiveStep ==
  ASSUME TellIInv, ArchiveFits, [DriveNext]_driveStudentVars PROVE ArchiveFits'
<1> SUFFICES ASSUME noise' = {} PROVE ArchiveFits'
  BY DEF ArchiveFits
<1>0. /\ noise = {} /\ DriveIInv
      /\ drive.status = "archived" => Archivable
  BY AloneStep DEF TellIInv, ArchiveFits
<1>1. ASSUME \A s \in Students : status'[s] \in Unsettled => status[s] \in Unsettled, Archivable
      PROVE  Archivable'
  BY <1>1 DEF Archivable, In
<1>2. ASSUME NEW r \in Requests, Proceed(r), \A q \in Requests \ {r} : pc'[q] = "idle"
      PROVE  ArchiveFits'
  <2>0. pc'[r] \in {"idle", "reread", "log", "mirror", "logStatus", "save"} /\ (pc'[r] = "save" => LoadDrive(r))
    BY <1>0, <1>2, ProceedLabels
  <2>1. CASE InsertRows(r) \/ WriteInvite(r)
    <3>1. /\ drive' = drive /\ pc'[r] # "save"
          /\ pc[r] = "insert" \/ (pc[r] = "write" /\ job[r].op = "invited")
      <4>1. ~LoadDrive(r)
        BY <2>1 DEF InsertRows, WriteInvite, LoadDrive
      <4> QED BY <2>0, <2>1, <4>1 DEF InsertRows, WriteInvite, driveVars
    <3>2. drive.status # "archived"
      BY <1>0, <3>1 DEF ArchiveFits
    <3> QED BY <1>2, <2>0, <3>1, <3>2 DEF ArchiveFits
  <2>2. CASE ~(InsertRows(r) \/ WriteInvite(r))
    <3>1. Archivable => Archivable'
      <4>1. ~\E q \in Requests : InsertRows(q) \/ WriteInvite(q)
        <5> SUFFICES ASSUME NEW q \in Requests, q # r, InsertRows(q) \/ WriteInvite(q) PROVE FALSE
          BY <2>2
        <5>1. pc[q] # "idle" /\ pc[r] # "idle"
          BY <1>0, <1>2, ProceedTells DEF InsertRows, WriteInvite
        <5> QED BY <1>0, <5>1 DEF TellIInv, AloneFits
      <4>2. DriveNext
        BY <1>2 DEF DriveNext
      <4> QED BY <1>0, <1>1, <4>1, <4>2, OnlyTheseUnsettle
    <3>2. drive'.status = "archived" => Archivable
      <4>1. CASE SetStatus(r)
        BY <1>0, <4>1 DEF SetStatus, ArchiveFits, DriveIInv, TypesFit, DriveTypeOK
      <4>2. CASE SaveDrive(r)
        BY <1>0, <4>2 DEF SaveDrive, ArchiveFits
      <4>3. CASE ~(SetStatus(r) \/ SaveDrive(r))
        <5>1. drive' = drive
          BY <1>2, <2>2, <4>3 DEF Proceed, RereadRows, WriteRevoke, WriteOutcome, WriteSelection, WriteResponse,
             CommitUpload, LogFails, LogEvents, SyncDrivePlacements, LogStatusChange, LoadDrive,
             ReadOnly, driveVars
        <5> QED BY <1>0, <5>1
      <4> QED BY <4>1, <4>2, <4>3
    <3>3. pc'[r] = "save" /\ job'[r].to = "archived" => Archivable
      <4> SUFFICES ASSUME LoadDrive(r), pc'[r] = "save", job'[r].to = "archived" PROVE Archivable
        BY <2>0
      <4>1. r \in DOMAIN pc /\ r \in DOMAIN job /\ job[r] \in DriveTask
        BY <1>0 DEF DriveIInv, TypesFit, JobsFit, FitsAt, LoadDrive
      <4>2. CASE job[r].to = job[r].from
        <5>1. job'[r] = [job[r] EXCEPT !.to = drive.status]
          BY <4>1, <4>2 DEF LoadDrive, Continue
        <5>2. drive.status = "archived"
          BY <4>1, <5>1 DEF DriveTask
        <5> QED BY <1>0, <5>2
      <4>3. CASE job[r].to # job[r].from
        BY <4>1, <4>3 DEF LoadDrive, Continue, End, Allowed
      <4> QED BY <4>2, <4>3
    <3> QED BY <1>2, <2>0, <3>1, <3>2, <3>3 DEF ArchiveFits
  <2> QED BY <2>1, <2>2
<1>3. ASSUME NEW r \in Requests, NEW j, NEW label, Begin(r, j, label), Fresh(label, j), ReadOnly,
             pc'[r] = label, job'[r] = j, \A q \in Requests \ {r} : pc'[q] = "idle"
      PROVE  ArchiveFits'
  <2>1. drive' = drive /\ status' = status
    BY <1>3 DEF ReadOnly, driveVars, rows
  <2>2. Archivable' = Archivable
    BY <2>1 DEF Archivable, In
  <2> QED BY <1>0, <1>3, <2>1, <2>2 DEF ArchiveFits, Fresh
<1>4. ASSUME \A q \in Requests : pc'[q] = "idle", Sweep \/ \E s \in Students : RemoveStudent(s)
      PROVE  ArchiveFits'
  <2>1. drive' = drive
    BY <1>4 DEF Sweep, RemoveStudent, driveVars
  <2>2. \A s \in Students : status'[s] \in Unsettled => status[s] \in Unsettled
    <3>1. CASE Sweep
      BY <3>1 DEF Sweep, Stamp, Unsettled
    <3>2. ASSUME NEW t \in Students, RemoveStudent(t)
          PROVE  \A s \in Students : status'[s] \in Unsettled => status[s] \in Unsettled
      <4>1. DOMAIN status = Students
        BY <1>0 DEF DriveIInv, RowsTyped
      <4> QED BY <3>2, <4>1 DEF RemoveStudent, Unsettled
    <3> QED BY <1>4, <3>1, <3>2
  <2> QED BY <1>0, <1>1, <1>4, <2>1, <2>2 DEF ArchiveFits
<1>5. ASSUME Tick \/ UNCHANGED driveStudentVars PROVE ArchiveFits'
  BY <1>0, <1>5 DEF Tick, driveStudentVars, rows, ArchiveFits, Archivable, In
<1> QED BY <1>2, <1>3, <1>4, <1>5, AloneStep

\* What the inbox is to show of a row.
Shown(s) == IF status[s] \in {"none", "imported"} THEN "none" ELSE Core(status[s])
Mirroring(r) == pc[r] \in {"log", "mirror"} /\ job[r].op \in Mirrored

\* An inbox that lags behind its row belongs to the one request under way, which
\* will not lose the row before it mirrors it.
InboxFits ==
  noise = {} =>
    /\ \A s \in Students : inbox[s] = Shown(s) \/ \E r \in Requests : Mirroring(r) /\ s \in DOMAIN job[r].seen
    /\ \A r \in Requests : Mirroring(r) =>
         \A s \in DOMAIN job[r].seen :
            s \in Students /\ status[s] = job[r].to /\ rowId[s] = job[r].seen[s].id

\* An UPDATE that returns rows: the request logs just these, as it found them.
LEMMA ReturnsRows ==
  ASSUME TypesFit, NEW r \in Requests, NEW STATE hit, NEW STATE seen, Returned(r, hit, seen)
  PROVE  /\ hit = {} => pc'[r] = "idle"
         /\ hit # {} => /\ pc'[r] = "log" /\ job'[r].op = job[r].op /\ job'[r].to = job[r].to
                        /\ job'[r].seen = [s \in hit |-> seen[s]]
  BY DEF TypesFit, JobsFit, Returned, Continue, End, Task

\* The conditional UPDATE of a mirrored request leaves just its rows to mirror.
LEMMA MirroredWrite ==
  ASSUME DriveIInv, noise = {}, \A s \in Students : inbox[s] = Shown(s),
         NEW r \in Requests, WriteInvite(r) \/ WriteRevoke(r) \/ WriteResponse(r)
  PROVE  /\ \A s \in Students : inbox'[s] = Shown(s)' \/ (Mirroring(r)' /\ s \in DOMAIN job'[r].seen)
         /\ Mirroring(r)' => \A s \in DOMAIN job'[r].seen :
              s \in Students /\ status'[s] = job'[r].to /\ rowId'[s] = job'[r].seen[s].id
<1>0. /\ TypesFit /\ FitsAt(pc[r], job[r]) /\ DOMAIN status = Students
  BY DEF DriveIInv, TypesFit, JobsFit, RowsTyped
<1>1. job[r] \in RowTask /\ ToFits(job[r]) /\ job[r].seen \in Seen
  BY <1>0 DEF WriteInvite, WriteRevoke, WriteResponse, FitsAt, RowTask
<1>2. DOMAIN job[r].seen \subseteq Students
  BY <1>1 DEF Seen
<1>3. ASSUME NEW STATE hit, NEW STATE seen, hit \subseteq DOMAIN job[r].seen, Returned(r, hit, seen),
             \A s \in hit : seen[s].id = rowId[s],
             status' = Stamp(status, hit, job[r].to), rowId' = rowId, inbox' = inbox,
             job[r].op \in Mirrored
      PROVE  /\ \A s \in Students : inbox'[s] = Shown(s)' \/ (Mirroring(r)' /\ s \in DOMAIN job'[r].seen)
             /\ Mirroring(r)' => \A s \in DOMAIN job'[r].seen :
                  s \in Students /\ status'[s] = job'[r].to /\ rowId'[s] = job'[r].seen[s].id
  <2>1. \A s \in Students \ hit : inbox'[s] = Shown(s)'
    BY <1>3 DEF Shown, Stamp
  <2>2. CASE hit = {}
    BY <1>0, <1>3, <2>1, <2>2, ReturnsRows DEF Mirroring
  <2>3. CASE hit # {}
    <3>1. /\ pc'[r] = "log" /\ job'[r].op = job[r].op /\ job'[r].to = job[r].to
          /\ job'[r].seen = [s \in hit |-> seen[s]]
      BY <1>0, <1>3, <2>3, ReturnsRows
    <3>2. \A s \in hit : status'[s] = job[r].to /\ s \in Students
      BY <1>2, <1>3 DEF Stamp
    <3> QED BY <1>3, <2>1, <3>1, <3>2 DEF Mirroring
  <2> QED BY <2>2, <2>3
<1>4. CASE WriteInvite(r)
  <2> DEFINE hit == InviteHits(r)
  <2>1. job[r].to = "invited" /\ job[r].op \in Mirrored
    BY <1>1, <1>4 DEF WriteInvite, ToFits, Mirrored
  <2>2. hit \subseteq DOMAIN job[r].seen /\ \A s \in hit : job[r].seen[s].id = rowId[s]
    BY DEF InviteHits, SameRow, In
  <2>3. /\ Returned(r, hit, job[r].seen) /\ rowId' = rowId /\ inbox' = inbox
        /\ status' = Stamp(status, hit, job[r].to)
    BY <1>4, <2>1 DEF WriteInvite
  <2> QED BY <1>3, <2>1, <2>2, <2>3
<1>5. CASE WriteRevoke(r)
  <2> DEFINE hit == In(SameRow(r), Revocable)
  <2>1. job[r].to = "revoked" /\ job[r].op \in Mirrored
    BY <1>1, <1>5 DEF WriteRevoke, ToFits, Mirrored
  <2>2. hit \subseteq DOMAIN job[r].seen /\ \A s \in hit : job[r].seen[s].id = rowId[s]
    BY DEF SameRow, In
  <2>3. /\ Returned(r, hit, job[r].seen) /\ rowId' = rowId /\ inbox' = inbox
        /\ status' = Stamp(status, hit, job[r].to)
    BY <1>5, <2>1 DEF WriteRevoke
  <2> QED BY <1>3, <2>1, <2>2, <2>3
<1>6. CASE WriteResponse(r)
  <2> DEFINE hit == In(DOMAIN job[r].seen, {"invited"})
  <2>1. job[r].op \in Mirrored
    BY <1>6 DEF WriteResponse, Mirrored
  <2>2. hit \subseteq DOMAIN job[r].seen /\ \A s \in hit : Found(hit)[s].id = rowId[s]
    BY DEF In, Found
  <2>3. /\ Returned(r, hit, Found(hit)) /\ rowId' = rowId /\ inbox' = inbox
        /\ status' = Stamp(status, hit, job[r].to)
    BY <1>6 DEF WriteResponse
  <2> QED BY <1>3, <2>1, <2>2, <2>3
<1> QED BY <1>4, <1>5, <1>6

\* Every step keeps the inbox in step but for what is about to be mirrored.
LEMMA InboxStep ==
  ASSUME TellIInv, InboxFits, [DriveNext]_driveStudentVars PROVE InboxFits'
<1> SUFFICES ASSUME noise' = {} PROVE InboxFits'
  BY DEF InboxFits
<1>0. /\ noise = {} /\ DriveIInv
      /\ \A r, q \in Requests : pc[r] # "idle" /\ pc[q] # "idle" => r = q
      /\ \A s \in Students : inbox[s] = Shown(s) \/ \E r \in Requests : Mirroring(r) /\ s \in DOMAIN job[r].seen
      /\ \A r \in Requests : Mirroring(r) =>
           \A s \in DOMAIN job[r].seen :
              s \in Students /\ status[s] = job[r].to /\ rowId[s] = job[r].seen[s].id
  BY AloneStep DEF TellIInv, InboxFits, AloneFits
<1>1. ASSUME NEW r \in Requests, Proceed(r), \A q \in Requests \ {r} : pc[q] = "idle" /\ pc'[q] = "idle"
      PROVE  InboxFits'
  <2> SUFFICES /\ \A s \in Students : inbox'[s] = Shown(s)' \/ (Mirroring(r)' /\ s \in DOMAIN job'[r].seen)
               /\ Mirroring(r)' => \A s \in DOMAIN job'[r].seen :
                    s \in Students /\ status'[s] = job'[r].to /\ rowId'[s] = job'[r].seen[s].id
    BY <1>1 DEF InboxFits, Mirroring
  <2>0. /\ FitsAt(pc[r], job[r]) /\ r \in DOMAIN pc /\ r \in DOMAIN job
        /\ status \in [Students -> Standings]
        /\ \A s \in Students : inbox[s] = Shown(s) \/ (Mirroring(r) /\ s \in DOMAIN job[r].seen)
    BY <1>0, <1>1 DEF DriveIInv, RowsTyped, TypesFit, JobsFit, Mirroring
  <2>1. CASE WriteInvite(r) \/ WriteRevoke(r) \/ WriteResponse(r)
    <3>1. pc[r] = "write"
      BY <2>1 DEF WriteInvite, WriteRevoke, WriteResponse
    <3>2. \A s \in Students : inbox[s] = Shown(s)
      BY <2>0, <3>1 DEF Mirroring
    <3> QED BY <1>0, <2>1, <3>2, MirroredWrite
  <2>2. ASSUME inbox' = inbox, ~Mirroring(r), ~Mirroring(r)',
               \A s \in Students : Shown(s)' = Shown(s)
        PROVE  \A s \in Students : inbox'[s] = Shown(s)'
    BY <2>0, <2>2
  <2>3. CASE InsertRows(r)
    <3>1. \A s \in Students : Shown(s)' = Shown(s)
      BY <2>3 DEF InsertRows, Shown, Stamp, In
    <3>2. pc'[r] = "reread" /\ pc[r] = "insert" /\ inbox' = inbox
      BY <2>0, <2>3 DEF InsertRows, Continue
    <3> QED BY <2>2, <3>1, <3>2 DEF Mirroring
  <2>4. CASE WriteOutcome(r) \/ WriteSelection(r)
    <3>1. /\ pc[r] = "write" /\ inbox' = inbox /\ job[r].op \in {"outcome", "selection_updated"}
          /\ \E hit : Returned(r, hit, Found(hit))
      BY <2>4 DEF WriteOutcome, WriteSelection
    <3>2. pc'[r] = "idle" \/ job'[r].op = job[r].op
      BY <1>0, <3>1, ReturnsRows DEF DriveIInv
    <3>3. \A s \in Students : Shown(s)' = Shown(s)
      <4>1. CASE WriteOutcome(r)
        <5>1. job[r].to \in Outcomes
          BY <2>0, <4>1 DEF WriteOutcome, FitsAt, ToFits
        <5> QED BY <4>1, <5>1 DEF WriteOutcome, Shown, Stamp, In, Core, Outcomes
      <4>2. CASE WriteSelection(r)
        BY <4>2 DEF WriteSelection, Shown
      <4> QED BY <2>4, <4>1, <4>2
    <3> QED BY <2>2, <3>1, <3>2, <3>3 DEF Mirroring, Mirrored
  <2>5. CASE CommitUpload(r)
    <3>1. \A s \in Students : Shown(s)' = Shown(s)
      BY <2>5 DEF CommitUpload, Shown, Stamp, In, Core
    <3>2. pc'[r] = "idle" /\ pc[r] = "write" /\ inbox' = inbox
      BY <2>0, <2>5 DEF CommitUpload, Continue, End
    <3> QED BY <2>2, <3>1, <3>2 DEF Mirroring
  <2>6. CASE RereadRows(r)
    <3>1. /\ pc'[r] = "log" /\ pc[r] = "reread" /\ inbox' = inbox /\ status' = status
          /\ job'[r].op = "imported"
      BY <2>0, <2>6 DEF RereadRows, Continue, Task, ReadOnly, rows
    <3> QED BY <2>2, <3>1 DEF Mirroring, Mirrored, Shown
  <2>7. CASE LogFails(r)
    <3>1. /\ pc[r] = "log" /\ pc'[r] = "idle" /\ inbox' = inbox /\ status' = status /\ Lost(r) # {}
      BY <2>0, <2>7 DEF LogFails, Continue, End, ReadOnly, rows
    <3>2. ~Mirroring(r)
      <4> SUFFICES ASSUME Mirroring(r) PROVE FALSE
        OBVIOUS
      <4>1. job[r].to # "none"
        BY <2>0, <3>1 DEF Mirroring, Mirrored, FitsAt, ToFits
      <4> QED BY <1>0, <3>1, <4>1 DEF Lost
    <3> QED BY <2>2, <3>1, <3>2 DEF Mirroring, Shown
  <2>8. CASE LogEvents(r)
    <3>1. /\ pc[r] = "log" /\ inbox' = inbox /\ status' = status /\ rowId' = rowId
          /\ IF job[r].op \in Mirrored THEN pc'[r] = "mirror" /\ job'[r] = job[r] ELSE pc'[r] = "idle"
      BY <2>0, <2>8 DEF LogEvents, Continue, End, rows
    <3> QED BY <1>0, <2>0, <3>1 DEF Mirroring, Shown
  <2>9. CASE SyncDrivePlacements(r)
    <3>1. /\ pc[r] = "mirror" /\ pc'[r] = "idle" /\ status' = status
          /\ inbox' = Stamp(inbox, DOMAIN job[r].seen, Core(job[r].to))
      BY <2>0, <2>9 DEF SyncDrivePlacements, Continue, End, rows
    <3>2. Mirroring(r)
      BY <2>0, <3>1 DEF FitsAt, Mirroring
    <3> QED
      <4>1. job[r].to \notin {"none", "imported"}
        BY <2>0, <3>1, <3>2 DEF Mirroring, Mirrored, FitsAt, ToFits
      <4>2. \A s \in DOMAIN job[r].seen : status[s] = job[r].to
        BY <1>0, <3>2
      <4> QED BY <2>0, <3>1, <4>1, <4>2 DEF Shown, Stamp, Mirroring
  <2>10. CASE SetStatus(r) \/ LogStatusChange(r) \/ LoadDrive(r) \/ SaveDrive(r)
    <3>1. /\ pc[r] \notin {"log", "mirror"} /\ inbox' = inbox /\ status' = status
          /\ pc'[r] \notin {"log", "mirror"}
      BY <2>0, <2>10 DEF SetStatus, LogStatusChange, LoadDrive, SaveDrive, Continue, End, ReadOnly, rows
    <3> QED BY <2>2, <3>1 DEF Mirroring, Shown
  <2> QED BY <1>1, <2>1, <2>3, <2>4, <2>5, <2>6, <2>7, <2>8, <2>9, <2>10 DEF Proceed
<1>2. ASSUME NEW r \in Requests, NEW j, NEW label, Begin(r, j, label), Fresh(label, j), ReadOnly,
             pc'[r] = label, job'[r] = j, \A q \in Requests : pc[q] = "idle",
             \A q \in Requests \ {r} : pc'[q] = "idle"
      PROVE  InboxFits'
  <2>1. inbox' = inbox /\ status' = status
    BY <1>2 DEF ReadOnly, rows
  <2>2. \A q \in Requests : ~Mirroring(q)
    BY <1>2 DEF Mirroring
  <2>3. ~Mirroring(r)'
    BY <1>2 DEF Mirroring, Mirrored, Fresh
  <2>4. \A q \in Requests : ~Mirroring(q)'
    BY <1>2, <2>3 DEF Mirroring
  <2>5. \A s \in Students : inbox'[s] = Shown(s)'
    BY <1>0, <2>1, <2>2 DEF Shown
  <2> QED BY <2>4, <2>5 DEF InboxFits
<1>3. ASSUME \A q \in Requests : pc[q] = "idle" /\ pc'[q] = "idle", Sweep \/ \E s \in Students : RemoveStudent(s)
      PROVE  InboxFits'
  <2>1. \A s \in Students : inbox[s] = Shown(s)
    BY <1>0, <1>3 DEF Mirroring
  <2>2. ASSUME NEW t \in Students, RemoveStudent(t) PROVE \A s \in Students : inbox'[s] = Shown(s)'
    <3>1. DOMAIN status = Students
      BY <1>0 DEF DriveIInv, RowsTyped
    <3> QED BY <2>1, <2>2, <3>1 DEF RemoveStudent, Shown
  <2>3. ASSUME Sweep PROVE \A s \in Students : inbox'[s] = Shown(s)'
    <3> DEFINE late == In(Students, {"invited"})
    <3>1. /\ status' = [s \in Students |-> IF s \in late THEN "denied" ELSE status[s]]
          /\ inbox' = [s \in Students |-> IF s \in late THEN Core("denied") ELSE inbox[s]]
      BY <2>3 DEF Sweep, Stamp
    <3> HIDE DEF late
    <3> QED BY <2>1, <3>1 DEF Shown
  <2>4. \A s \in Students : inbox'[s] = Shown(s)'
    BY <1>3, <2>2, <2>3
  <2> QED BY <1>3, <2>4 DEF InboxFits, Mirroring
<1>4. ASSUME Tick \/ UNCHANGED driveStudentVars PROVE InboxFits'
  <2>1. inbox' = inbox /\ status' = status /\ rowId' = rowId /\ pc' = pc /\ job' = job
    BY <1>4 DEF Tick, driveStudentVars, rows
  <2> QED BY <1>0, <2>1 DEF InboxFits, Mirroring, Shown
<1> QED BY <1>1, <1>2, <1>3, <1>4, AloneStep

\* As long as requests come one at a time, the inbox shows each student what the
\* drive says of them, and an archived drive has nobody left unsettled, although
\* row, inbox and drive are written by separate statements (syncDrivePlacements,
\* assertArchivable).
THEOREM TablesAgreeWhenQuiet == DriveSpec => []AgreesWhenQuiet
<1>1. DriveInit => ArchiveFits /\ InboxFits
  <2> SUFFICES ASSUME DriveInit PROVE ArchiveFits /\ InboxFits
    OBVIOUS
  <2>1. drive.status # "archived" /\ \A r \in Requests : pc[r] = "idle"
    BY DEF DriveInit
  <2>2. \A s \in Students : inbox[s] = "none" /\ status[s] \in {"none", "imported"}
    BY DEF DriveInit
  <2> QED BY <2>1, <2>2 DEF ArchiveFits, InboxFits, Shown, Mirroring
<1>2. TellIInv /\ ArchiveFits /\ InboxFits /\ [DriveNext]_driveStudentVars => ArchiveFits' /\ InboxFits'
  BY ArchiveStep, InboxStep
<1>3. ArchiveFits /\ InboxFits => AgreesWhenQuiet
  <2>1. ArchiveFits => ArchivedIsSettled
    BY DEF ArchiveFits, ArchivedIsSettled, Archivable, In, Unsettled
  <2>2. InboxFits => InboxInStepWhenQuiet
    BY DEF InboxFits, InboxInStepWhenQuiet, InboxAgrees, Shown, Busy, Mirroring
  <2> QED BY <2>1, <2>2 DEF AgreesWhenQuiet
<1> QED BY <1>1, <1>2, <1>3, TellInvariant, PTL DEF DriveSpec

-----------------------------------------------------------------------------
(* The audit trail *)

DriveEvent == [action : RowOps, from : Standings, to : Standings]

\* The operations whose UPDATE moves rows that are invited or further.
Moving == {"invited", "revoked", "accepted", "denied", "outcome"}
Final(s) == status[s] \notin {"none", "imported"}

\* What the events still to be inserted rest on: they record moves, and their
\* rows stay.
EventsFit ==
  \A r \in Requests : LET seen == job[r].seen IN
    /\ pc[r] = "write" /\ job[r].op = "invited" => \A s \in DOMAIN seen : seen[s].from \in Invitable
    /\ pc[r] = "write" /\ job[r].op = "revoked" => \A s \in DOMAIN seen : seen[s].from \in Revocable
    /\ pc[r] = "write" /\ job[r].op = "upload" =>
         \A s \in DOMAIN seen : seen[s].from = "accepted" \/ status[s] = "selected"
    /\ pc[r] = "log" /\ job[r].op \in Moving =>
         \A s \in DOMAIN seen : s \in Students /\ Final(s) /\ rowId[s] = seen[s].id
                                /\ seen[s].from # job[r].to

\* The requests that still owe s the event of a move.
Owing(s, to) == {r \in Requests : /\ pc[r] = "log" /\ job[r].op \in Moving
                                  /\ job[r].to = to /\ s \in DOMAIN job[r].seen}

Covered(s, to) == TimesTaken(past[s], to) <= TimesAudited(trail[s], to) + Cardinality(Owing(s, to))

BusyRequests == {r \in Requests : pc[r] # "idle"}

\* Every move is recorded, or some request still owes its event.
AuditFits ==
  /\ trail \in [Students -> Seq(DriveEvent)]
  /\ IsFiniteSet(BusyRequests)
  /\ EventsFit
  /\ "crash" \notin noise =>
       \A s \in Students : \A to \in Standings \ {"none", "imported"} : Covered(s, to)

LastOf(p) == IF p = <<>> THEN "none" ELSE p[Len(p)]

\* The event of the row's last move is still to come.
Logging(r) == pc[r] = "reread" \/ (pc[r] = "log" /\ job[r].op \in Moving \cup {"imported"})

LagsBy(r, s) ==
  /\ s \in Students /\ status[s] # "none" /\ (pc[r] = "log" => rowId[s] = job[r].seen[s].id)
  /\ \E p \in Seq(Standings) : /\ past[s] = Append(p, job[r].to) /\ Records(trail[s], p)
                               /\ job[r].seen[s].from = LastOf(p) /\ LastOf(p) # job[r].to

\* Alone, what a request has read still holds; an event that is no move says so.
AsRead(r) ==
  /\ pc[r] = "insert" => \A s \in DOMAIN job[r].seen : status[s] = "none"
  /\ pc[r] \in {"insert", "reread"} => \A s \in DOMAIN job[r].seen : job[r].seen[s].from = "none"
  /\ pc[r] = "write" /\ job[r].op \in {"invited", "revoked", "upload"} =>
       \A s \in DOMAIN job[r].seen : job[r].seen[s].from = status[s]
  /\ pc[r] = "log" /\ ~Logging(r) => \A s \in DOMAIN job[r].seen : job[r].seen[s].from = job[r].to

\* Alone, the trail lacks at most the events of the request under way.
TrailFits ==
  /\ \A s \in Students : status[s] = "none" => past[s] = <<>>
  /\ noise = {} =>
       /\ \A s \in Students : Records(trail[s], past[s]) \/ \E r \in Requests : Logging(r) /\ s \in DOMAIN job[r].seen
       /\ \A r \in Requests : Logging(r) => \A s \in DOMAIN job[r].seen : LagsBy(r, s)
       /\ \A r \in Requests : AsRead(r)

-----------------------------------------------------------------------------
(* Counting in sequences *)

\* The positions of a sequence are finitely many, and one more is its next.
LEMMA CountedPositions ==
  ASSUME NEW n \in Nat, NEW D, D = 1 .. n, NEW I, I \subseteq D
  PROVE  /\ IsFiniteSet(I) /\ Cardinality(I) \in Nat
         /\ Cardinality(I) = 0 <=> I = {}
         /\ n + 1 \notin I
         /\ IsFiniteSet(I \cup {n + 1}) /\ Cardinality(I \cup {n + 1}) = Cardinality(I) + 1
<1>1. IsFiniteSet(1 .. n)
  BY FS_Interval
<1>2. IsFiniteSet(I)
  BY <1>1, FS_Subset
<1>3. n + 1 \notin I
  OBVIOUS
<1> QED BY <1>2, <1>3, FS_AddElement, FS_EmptySet, FS_CardinalityType

\* A longer history: one more move to its last status, as many to the others.
LEMMA TakenAppended ==
  ASSUME NEW p \in Seq(Standings), NEW v \in Standings, NEW to
  PROVE  /\ TimesTaken(p, to) \in Nat
         /\ TimesTaken(Append(p, v), to) = TimesTaken(p, to) + IF v = to THEN 1 ELSE 0
<1> DEFINE n == Len(p)
           q == Append(p, v)
           I == {i \in DOMAIN p : p[i] = to}
           J == {i \in DOMAIN q : q[i] = to}
<1>1. /\ n \in Nat /\ DOMAIN p = 1 .. n /\ DOMAIN q = 1 .. (n + 1) /\ q[n + 1] = v
      /\ \A i \in 1 .. n : q[i] = p[i]
  OBVIOUS
<1>2. J = I \cup (IF v = to THEN {n + 1} ELSE {})
  <2> HIDE DEF q, n
  <2>1. DOMAIN q = DOMAIN p \cup {n + 1} /\ \A i \in DOMAIN p : q[i] = p[i]
    BY <1>1
  <2>2. CASE v = to
    BY <1>1, <2>1, <2>2
  <2>3. CASE ~(v = to)
    BY <1>1, <2>1, <2>3
  <2> QED BY <2>2, <2>3
<1>3. /\ IsFiniteSet(I) /\ Cardinality(I) \in Nat
      /\ Cardinality(I \cup {n + 1}) = Cardinality(I) + 1
  <2> HIDE DEF n, q
  <2> QED BY <1>1, CountedPositions
<1>4. TimesTaken(p, to) = Cardinality(I) /\ TimesTaken(q, to) = Cardinality(J)
  BY DEF TimesTaken
<1>5. I \cup {} = I
  OBVIOUS
<1> HIDE DEF I, J
<1>6. CASE v = to
  <2>1. J = I \cup {n + 1}
    BY <1>2, <1>6
  <2> QED BY <1>3, <1>4, <1>6, <2>1
<1>7. CASE ~(v = to)
  <2>1. J = I
    BY <1>2, <1>5, <1>7
  <2> QED BY <1>3, <1>4, <1>7, <2>1
<1> QED BY <1>6, <1>7

\* A longer trail: one more record of a move to where its last event leads.
LEMMA AuditedAppended ==
  ASSUME NEW t \in Seq(DriveEvent), NEW e \in DriveEvent, NEW to
  PROVE  /\ TimesAudited(t, to) \in Nat
         /\ TimesAudited(Append(t, e), to)
              = TimesAudited(t, to) + IF e.to = to /\ e.from # to THEN 1 ELSE 0
<1> DEFINE n == Len(t)
           q == Append(t, e)
           I == {i \in DOMAIN t : t[i].to = to /\ t[i].from # to}
           J == {i \in DOMAIN q : q[i].to = to /\ q[i].from # to}
<1>1. /\ n \in Nat /\ DOMAIN t = 1 .. n /\ DOMAIN q = 1 .. (n + 1) /\ q[n + 1] = e
      /\ \A i \in 1 .. n : q[i] = t[i]
  OBVIOUS
<1>2. J = I \cup (IF e.to = to /\ e.from # to THEN {n + 1} ELSE {})
  <2> HIDE DEF q, n
  <2>1. DOMAIN q = DOMAIN t \cup {n + 1} /\ \A i \in DOMAIN t : q[i] = t[i]
    BY <1>1
  <2>2. CASE e.to = to /\ e.from # to
    BY <1>1, <2>1, <2>2
  <2>3. CASE ~(e.to = to /\ e.from # to)
    BY <1>1, <2>1, <2>3
  <2> QED BY <2>2, <2>3
<1>3. /\ IsFiniteSet(I) /\ Cardinality(I) \in Nat
      /\ Cardinality(I \cup {n + 1}) = Cardinality(I) + 1
  <2> HIDE DEF n, q
  <2> QED BY <1>1, CountedPositions
<1>4. TimesAudited(t, to) = Cardinality(I) /\ TimesAudited(q, to) = Cardinality(J)
  BY DEF TimesAudited
<1>5. I \cup {} = I
  OBVIOUS
<1> HIDE DEF I, J
<1>6. CASE e.to = to /\ e.from # to
  <2>1. J = I \cup {n + 1}
    BY <1>2, <1>6
  <2> QED BY <1>3, <1>4, <1>6, <2>1
<1>7. CASE ~(e.to = to /\ e.from # to)
  <2>1. J = I
    BY <1>2, <1>5, <1>7
  <2> QED BY <1>3, <1>4, <1>7, <2>1
<1> QED BY <1>6, <1>7

\* The events of a trail that record moves, and how many there are up to one.
MovesIn(t) == {i \in DOMAIN t : t[i].from # t[i].to}
NthMove(t, i) == Cardinality({k \in MovesIn(t) : k <= i})

LEMMA NthMoveIsOne ==
  ASSUME NEW t \in Seq(DriveEvent), NEW i \in MovesIn(t)
  PROVE  NthMove(t, i) \in 1 .. Cardinality(MovesIn(t))
<1>1. /\ Len(t) \in Nat /\ DOMAIN t = 1 .. Len(t) /\ MovesIn(t) \subseteq DOMAIN t /\ i \in Nat
  BY DEF MovesIn
<1>2. IsFiniteSet(MovesIn(t)) /\ Cardinality(MovesIn(t)) \in Nat
  BY <1>1, CountedPositions
<1>3. {k \in MovesIn(t) : k <= i} \subseteq MovesIn(t) /\ i \in {k \in MovesIn(t) : k <= i}
  BY <1>1
<1>4. /\ IsFiniteSet({k \in MovesIn(t) : k <= i})
      /\ NthMove(t, i) \in Nat /\ NthMove(t, i) # 0
      /\ NthMove(t, i) <= Cardinality(MovesIn(t))
  BY <1>2, <1>3, FS_Subset, FS_EmptySet, FS_CardinalityType DEF NthMove
<1> QED BY <1>2, <1>4

\* One more event keeps the places of those before it; a move is the next.
LEMMA MovesAppended ==
  ASSUME NEW t \in Seq(DriveEvent), NEW e \in DriveEvent
  PROVE  LET q == Append(t, e) IN
         /\ Cardinality(MovesIn(t)) \in Nat
         /\ \A i \in MovesIn(t) : i \in MovesIn(q) /\ q[i] = t[i] /\ NthMove(q, i) = NthMove(t, i)
         /\ e.from = e.to => MovesIn(q) = MovesIn(t)
         /\ e.from # e.to => /\ MovesIn(q) = MovesIn(t) \cup {Len(t) + 1} /\ q[Len(t) + 1] = e
                             /\ Cardinality(MovesIn(q)) = Cardinality(MovesIn(t)) + 1
                             /\ NthMove(q, Len(t) + 1) = Cardinality(MovesIn(t)) + 1
<1> DEFINE n == Len(t)
           q == Append(t, e)
           I == MovesIn(t)
           J == MovesIn(q)
<1>1. /\ n \in Nat /\ DOMAIN t = 1 .. n /\ DOMAIN q = 1 .. (n + 1) /\ q[n + 1] = e
      /\ \A i \in 1 .. n : q[i] = t[i]
  OBVIOUS
<1> HIDE DEF n, q
<1>2. J = I \cup (IF e.from = e.to THEN {} ELSE {n + 1})
  <2>1. \A i : i \in 1 .. (n + 1) <=> i \in 1 .. n \/ i = n + 1
    BY <1>1
  <2> QED BY <1>1, <2>1 DEF MovesIn
<1>3. I \subseteq 1 .. n
  BY <1>1 DEF MovesIn
<1>4. /\ Cardinality(I) \in Nat /\ Cardinality(I \cup {n + 1}) = Cardinality(I) + 1
  BY <1>1, <1>3, CountedPositions
<1>5. ASSUME NEW i \in I PROVE i \in J /\ q[i] = t[i] /\ NthMove(q, i) = NthMove(t, i)
  <2>1. i \in 1 .. n
    BY <1>3
  <2>2. {k \in J : k <= i} = {k \in I : k <= i}
    BY <1>1, <1>2, <2>1
  <2> QED BY <1>1, <1>2, <2>1, <2>2 DEF NthMove
<1>6. CASE e.from = e.to
  BY <1>2, <1>4, <1>5, <1>6 DEF n, q
<1>7. CASE e.from # e.to
  <2>1. J = I \cup {n + 1}
    BY <1>2, <1>7
  <2>2. {k \in J : k <= n + 1} = J
    BY <1>1, <1>3, <2>1
  <2>3. NthMove(q, n + 1) = Cardinality(I) + 1
    BY <1>4, <2>1, <2>2 DEF NthMove
  <2> QED BY <1>1, <1>4, <1>5, <1>7, <2>1, <2>3 DEF n, q
<1> QED BY <1>6, <1>7

\* What Records says of the moves of a trail.
LEMMA RecordsMoves ==
  ASSUME NEW t, NEW p
  PROVE  Records(t, p) <=>
           /\ Cardinality(MovesIn(t)) = Len(p)
           /\ \A i \in MovesIn(t) : /\ t[i].to = p[NthMove(t, i)]
                                    /\ t[i].from = IF NthMove(t, i) = 1 THEN "none"
                                                   ELSE p[NthMove(t, i) - 1]
<1> DEFINE moves == {i \in DOMAIN t : t[i].from # t[i].to}
           Nth(i) == Cardinality({k \in moves : k <= i})
<1>1. Records(t, p) <=>
        /\ Cardinality(moves) = Len(p)
        /\ \A i \in moves : /\ t[i].to = p[Nth(i)]
                            /\ t[i].from = IF Nth(i) = 1 THEN "none" ELSE p[Nth(i) - 1]
  BY Zenon DEF Records
<1>2. moves = MovesIn(t)
  BY DEF MovesIn
<1>3. \A i : Nth(i) = NthMove(t, i)
  BY <1>2 DEF NthMove
<1> HIDE DEF moves, Nth
<1> QED BY <1>1, <1>2, <1>3

\* An event that is no move leaves the records true.
LEMMA RecordsKept ==
  ASSUME NEW t \in Seq(DriveEvent), NEW p, Records(t, p), NEW e \in DriveEvent, e.from = e.to
  PROVE  Records(Append(t, e), p)
<1> DEFINE q == Append(t, e)
<1>1. /\ MovesIn(q) = MovesIn(t)
      /\ \A i \in MovesIn(t) : q[i] = t[i] /\ NthMove(q, i) = NthMove(t, i)
  BY MovesAppended
<1> HIDE DEF q
<1>2. Records(q, p)
  BY <1>1, RecordsMoves
<1> QED BY <1>2 DEF q

\* The event of a move that starts where the history ended keeps up with it.
LEMMA RecordsGrow ==
  ASSUME NEW t \in Seq(DriveEvent), NEW p \in Seq(Standings), Records(t, p),
         NEW e \in DriveEvent, e.from = LastOf(p), e.from # e.to
  PROVE  Records(Append(t, e), Append(p, e.to))
<1> DEFINE q == Append(t, e)
           n == Len(t)
           m == Len(p)
           u == Append(p, e.to)
<1>1. /\ m \in Nat /\ Len(u) = m + 1 /\ u[m + 1] = e.to /\ \A k \in 1 .. m : u[k] = p[k]
      /\ m = 0 <=> p = <<>>
  BY DEF DriveEvent
<1> HIDE DEF q, u, m, n
<1>2. /\ Cardinality(MovesIn(t)) = m
      /\ \A i \in MovesIn(t) : /\ t[i].to = p[NthMove(t, i)]
                               /\ t[i].from = IF NthMove(t, i) = 1 THEN "none" ELSE p[NthMove(t, i) - 1]
  BY RecordsMoves DEF m
<1>3. /\ \A i \in MovesIn(t) : q[i] = t[i] /\ NthMove(q, i) = NthMove(t, i)
      /\ MovesIn(q) = MovesIn(t) \cup {n + 1} /\ q[n + 1] = e
      /\ Cardinality(MovesIn(q)) = m + 1 /\ NthMove(q, n + 1) = m + 1
  <2>1. /\ \A i \in MovesIn(t) : q[i] = t[i] /\ NthMove(q, i) = NthMove(t, i)
        /\ MovesIn(q) = MovesIn(t) \cup {n + 1} /\ q[n + 1] = e
        /\ Cardinality(MovesIn(q)) = Cardinality(MovesIn(t)) + 1
        /\ NthMove(q, n + 1) = Cardinality(MovesIn(t)) + 1
    <3> USE DEF q, n
    <3> QED BY MovesAppended
  <2> QED BY <1>2, <2>1
<1>4. ASSUME NEW i \in MovesIn(t)
      PROVE  /\ q[i].to = u[NthMove(q, i)]
             /\ q[i].from = IF NthMove(q, i) = 1 THEN "none" ELSE u[NthMove(q, i) - 1]
  <2>1. NthMove(t, i) \in 1 .. m
    BY <1>2, NthMoveIsOne
  <2>2. NthMove(t, i) # 1 => NthMove(t, i) - 1 \in 1 .. m
    BY <1>1, <2>1
  <2> QED BY <1>1, <1>2, <1>3, <2>1, <2>2
<1>5. /\ q[n + 1].to = u[NthMove(q, n + 1)]
      /\ q[n + 1].from = IF NthMove(q, n + 1) = 1 THEN "none" ELSE u[NthMove(q, n + 1) - 1]
  <2>1. CASE p = <<>>
    BY <1>1, <1>3, <2>1 DEF LastOf
  <2>2. CASE p # <<>>
    <3>1. m \in 1 .. m /\ e.from = p[m] /\ m + 1 # 1 /\ (m + 1) - 1 = m
      BY <1>1, <2>2 DEF LastOf, m
    <3> QED BY <1>1, <1>3, <3>1
  <2> QED BY <2>1, <2>2
<1>6. Records(q, u)
  BY <1>1, <1>3, <1>4, <1>5, RecordsMoves
<1> QED BY <1>6 DEF q, u

-----------------------------------------------------------------------------
(* No move goes unrecorded *)

\* What a request between two of its statements remembers.
LEMMA JobRows ==
  ASSUME DriveIInv, NEW r \in Requests, pc[r] \in {"insert", "reread", "write", "log", "mirror"}
  PROVE  /\ job[r] \in RowTask /\ ToFits(job[r]) /\ job[r].seen \in Seen
         /\ job[r].op \in RowOps /\ job[r].to \in Standings
         /\ DOMAIN job[r].seen \subseteq Students
         /\ \A s \in DOMAIN job[r].seen : job[r].seen[s].from \in Standings
<1>1. job[r] \in RowTask /\ ToFits(job[r])
  BY DEF DriveIInv, TypesFit, JobsFit, FitsAt
<1>2. job[r].seen \in Seen /\ job[r].op \in RowOps /\ job[r].to \in Standings
  BY <1>1 DEF RowTask
<1> QED BY <1>1, <1>2 DEF Seen

\* The row of a student who has been invited is there to stay.
LEMMA FinalStays ==
  ASSUME DriveIInv, [DriveNext]_driveStudentVars, NEW s \in Students, Final(s)
  PROVE  Final(s)' /\ rowId'[s] = rowId[s]
<1>1. RowMoves(s)
  BY RowSteps DEF DriveIInv, RowsTyped, RowMoves, Keeps, driveStudentVars, rows
<1>2. Final(s)'
  BY <1>1 DEF Final, RowMoves, Keeps, Reselected, Enters, Leaves, IsInvited, IsRevoked, Responds, HasOutcome,
     Outcomes
<1>3. ASSUME NEW r \in Requests, CellStarts(r) \/ StudentStarts(r) PROVE rowId' = rowId
  BY <1>3, StartsFit DEF DriveIInv, ReadOnly, rows
<1>4. ASSUME NEW r \in Requests, InsertRows(r) PROVE rowId'[s] = rowId[s]
  BY <1>4 DEF InsertRows, In, Final
<1>5. ASSUME NEW r \in Requests, Proceed(r), ~InsertRows(r) PROVE rowId' = rowId
  BY <1>5 DEF Proceed, RereadRows, WriteInvite, WriteRevoke, WriteOutcome, WriteSelection, WriteResponse,
     CommitUpload, LogFails, LogEvents, SyncDrivePlacements, SetStatus, LogStatusChange, LoadDrive, SaveDrive,
     ReadOnly, rows
<1>6. RemoveStudent(s) \/ Tick \/ Sweep \/ Crash \/ UNCHANGED driveStudentVars => rowId' = rowId
  BY DEF RemoveStudent, Tick, Sweep, Crash, driveStudentVars, rows
<1> QED BY <1>2, <1>3, <1>4, <1>5, <1>6 DEF DriveNext, RemoveStudent

\* The UPDATE of a moving request: the rows it returns are those that moved, and
\* each of their events will record a move.
LEMMA MovingWrite ==
  ASSUME DriveIInv, EventsFit, NEW r \in Requests,
         WriteInvite(r) \/ WriteRevoke(r) \/ WriteOutcome(r) \/ WriteResponse(r)
  PROVE  \E hit, seen :
           /\ hit \subseteq DOMAIN job[r].seen
           /\ status' = Stamp(status, hit, job[r].to) /\ past' = Extend(past, hit, job[r].to)
           /\ rowId' = rowId /\ trail' = trail /\ Returned(r, hit, seen)
           /\ \A s \in hit : /\ seen[s].id = rowId[s] /\ seen[s].from # job[r].to
                             /\ status[s] # "none" /\ status[s] # job[r].to
                             /\ \/ job[r].op \in {"invited", "revoked"} /\ seen[s] = job[r].seen[s]
                                \/ seen[s].from = status[s]
           /\ pc[r] = "write" /\ job[r].op \in Moving
           /\ job[r].to \in Standings \ {"none", "imported"}
<1>1. /\ pc[r] = "write" /\ job[r].op \in Moving
      /\ job[r].op \in {"invited", "revoked"} => \A s \in DOMAIN job[r].seen :
           job[r].seen[s].from \in IF job[r].op = "invited" THEN Invitable ELSE Revocable
  BY DEF WriteInvite, WriteRevoke, WriteOutcome, WriteResponse, Moving, EventsFit
<1>2. ToFits(job[r])
  BY <1>1, JobRows
<1>3. CASE WriteInvite(r)
  <2> DEFINE hit == InviteHits(r)
  <2>1. job[r].to = "invited" /\ job[r].op = "invited"
    BY <1>2, <1>3 DEF WriteInvite, ToFits
  <2>2. /\ hit \subseteq DOMAIN job[r].seen
        /\ \A s \in hit : job[r].seen[s].id = rowId[s] /\ status[s] \in Invitable
    BY DEF InviteHits, SameRow, In
  <2>3. /\ Returned(r, hit, job[r].seen) /\ rowId' = rowId /\ trail' = trail
        /\ status' = Stamp(status, hit, job[r].to) /\ past' = Extend(past, hit, job[r].to)
    BY <1>3, <2>1 DEF WriteInvite
  <2> HIDE DEF hit
  <2> QED BY <1>1, <2>1, <2>2, <2>3 DEF Invitable, Standings
<1>4. CASE WriteRevoke(r)
  <2> DEFINE hit == In(SameRow(r), Revocable)
  <2>1. job[r].to = "revoked" /\ job[r].op = "revoked"
    BY <1>2, <1>4 DEF WriteRevoke, ToFits
  <2>2. /\ hit \subseteq DOMAIN job[r].seen
        /\ \A s \in hit : job[r].seen[s].id = rowId[s] /\ status[s] \in Revocable
    BY DEF SameRow, In
  <2>3. /\ Returned(r, hit, job[r].seen) /\ rowId' = rowId /\ trail' = trail
        /\ status' = Stamp(status, hit, job[r].to) /\ past' = Extend(past, hit, job[r].to)
    BY <1>4, <2>1 DEF WriteRevoke
  <2> HIDE DEF hit
  <2> QED BY <1>1, <2>1, <2>2, <2>3 DEF Revocable, Standings
<1>5. CASE WriteOutcome(r)
  <2> DEFINE hit == In(DOMAIN job[r].seen, {"accepted"})
  <2>1. job[r].to \in Outcomes
    BY <1>2, <1>5 DEF WriteOutcome, ToFits
  <2>2. /\ hit \subseteq DOMAIN job[r].seen
        /\ \A s \in hit : /\ Found(hit)[s].id = rowId[s] /\ Found(hit)[s].from = status[s]
                          /\ status[s] = "accepted"
    BY DEF Found, In
  <2>3. /\ Returned(r, hit, Found(hit)) /\ rowId' = rowId /\ trail' = trail
        /\ status' = Stamp(status, hit, job[r].to) /\ past' = Extend(past, hit, job[r].to)
    BY <1>5 DEF WriteOutcome
  <2> HIDE DEF hit
  <2> QED BY <1>1, <2>1, <2>2, <2>3 DEF Outcomes, Standings
<1>6. CASE WriteResponse(r)
  <2> DEFINE hit == In(DOMAIN job[r].seen, {"invited"})
  <2>1. job[r].to \in {"accepted", "denied"}
    BY <1>2, <1>6 DEF WriteResponse, ToFits
  <2>2. /\ hit \subseteq DOMAIN job[r].seen
        /\ \A s \in hit : /\ Found(hit)[s].id = rowId[s] /\ Found(hit)[s].from = status[s]
                          /\ status[s] = "invited"
    BY DEF Found, In
  <2>3. /\ Returned(r, hit, Found(hit)) /\ rowId' = rowId /\ trail' = trail
        /\ status' = Stamp(status, hit, job[r].to) /\ past' = Extend(past, hit, job[r].to)
    BY <1>6 DEF WriteResponse
  <2> HIDE DEF hit
  <2> QED BY <1>1, <2>1, <2>2, <2>3 DEF Standings
<1> QED BY <1>3, <1>4, <1>5, <1>6

\* What a request logs next it has just moved, and is still there.
LEMMA EventsOfOne ==
  ASSUME DriveIInv, EventsFit, NEW r \in Requests, Proceed(r)
  PROVE  pc'[r] = "log" /\ job'[r].op \in Moving =>
           \A s \in DOMAIN job'[r].seen : s \in Students /\ Final(s)' /\ rowId'[s] = job'[r].seen[s].id
                                         /\ job'[r].seen[s].from # job'[r].to
<1> SUFFICES ASSUME pc'[r] = "log", job'[r].op \in Moving
             PROVE  \A s \in DOMAIN job'[r].seen :
                      s \in Students /\ Final(s)' /\ rowId'[s] = job'[r].seen[s].id
                      /\ job'[r].seen[s].from # job'[r].to
  OBVIOUS
<1>1. r \in DOMAIN job
  BY DEF DriveIInv, TypesFit, JobsFit
<1>2. ~RereadRows(r)
  BY <1>1 DEF RereadRows, Continue, Task, Moving
<1>3. ~WriteSelection(r)
  <2> SUFFICES ASSUME WriteSelection(r) PROVE FALSE
    OBVIOUS
  <2>1. PICK hit : Returned(r, hit, Found(hit)) /\ job[r].op = "selection_updated"
    BY DEF WriteSelection
  <2>2. job'[r].op = job[r].op
    BY <2>1, ReturnsRows DEF DriveIInv
  <2> QED BY <2>1, <2>2 DEF Moving
<1>4. WriteInvite(r) \/ WriteRevoke(r) \/ WriteOutcome(r) \/ WriteResponse(r)
  BY <1>2, <1>3, ProceedLabels
<1>5. PICK hit, seen :
           /\ hit \subseteq DOMAIN job[r].seen /\ status' = Stamp(status, hit, job[r].to) /\ rowId' = rowId
           /\ Returned(r, hit, seen)
           /\ \A s \in hit : seen[s].id = rowId[s] /\ seen[s].from # job[r].to
           /\ pc[r] = "write" /\ job[r].to \in Standings \ {"none", "imported"}
  BY <1>4, MovingWrite
<1>6. job'[r].to = job[r].to /\ job'[r].seen = [s \in hit |-> seen[s]]
  BY <1>5, ReturnsRows DEF DriveIInv
<1>7. hit \subseteq Students
  BY <1>5, JobRows
<1> QED BY <1>5, <1>6, <1>7 DEF Final, Stamp

LEMMA EventsStep ==
  ASSUME DriveIInv, EventsFit, [DriveNext]_driveStudentVars PROVE EventsFit'
<1>0. /\ pc \in [Requests -> Labels] /\ job = [r \in Requests |-> job[r]]
      /\ \A s \in Students : status[s] = "selected" => status'[s] = "selected"
      /\ \A s \in Students : Final(s) => Final(s)' /\ rowId'[s] = rowId[s]
  BY SelectedStays, FinalStays DEF DriveIInv, TypesFit, JobsFit
<1>1. \A q \in Requests : pc[q] = "write" => DOMAIN job[q].seen \subseteq Students
  BY JobRows
<1> DEFINE Fits(q) ==
             /\ pc[q] = "write" /\ job[q].op = "invited" =>
                  \A s \in DOMAIN job[q].seen : job[q].seen[s].from \in Invitable
             /\ pc[q] = "write" /\ job[q].op = "revoked" =>
                  \A s \in DOMAIN job[q].seen : job[q].seen[s].from \in Revocable
             /\ pc[q] = "write" /\ job[q].op = "upload" =>
                  \A s \in DOMAIN job[q].seen : job[q].seen[s].from = "accepted" \/ status[s] = "selected"
             /\ pc[q] = "log" /\ job[q].op \in Moving =>
                  \A s \in DOMAIN job[q].seen : s \in Students /\ Final(s) /\ rowId[s] = job[q].seen[s].id
                                                /\ job[q].seen[s].from # job[q].to
<1>2. \A q \in Requests : Fits(q)
  BY DEF EventsFit
<1>3. ASSUME NEW q \in Requests, pc'[q] = pc[q], job'[q] = job[q] PROVE Fits(q)'
  BY <1>0, <1>1, <1>2, <1>3
<1>4. (\A q \in Requests : Fits(q)') => EventsFit'
  BY DEF EventsFit
<1>5. ASSUME NEW r \in Requests, Proceed(r) PROVE \A q \in Requests : Fits(q)'
  <2>1. pc'[r] # "write" /\ \A q \in Requests \ {r} : pc'[q] = pc[q] /\ job'[q] = job[q]
    BY <1>5, ProceedTells
  <2>2. Fits(r)'
    BY <1>5, <2>1, EventsOfOne
  <2> HIDE DEF Fits
  <2> QED BY <1>3, <2>1, <2>2
<1>6. ASSUME NEW r \in Requests, CellStarts(r) \/ StudentStarts(r) PROVE \A q \in Requests : Fits(q)'
  <2>1. PICK j, label : Begin(r, j, label) /\ Fresh(label, j) /\ ReadOnly
    BY <1>6, StartsFit DEF DriveIInv
  <2>2. /\ \A q \in Requests \ {r} : pc'[q] = pc[q] /\ job'[q] = job[q]
        /\ pc'[r] = label /\ job'[r] = j
    BY <1>0, <2>1 DEF Begin
  <2>3. Fits(r)'
    BY <2>1, <2>2 DEF Fresh, ReadOnly, rows, Moving
  <2> HIDE DEF Fits
  <2> QED BY <1>3, <2>2, <2>3
<1>7. ASSUME Crash PROVE \A q \in Requests : Fits(q)'
  BY <1>7 DEF Crash
<1>8. ASSUME UNCHANGED <<pc, job>> PROVE \A q \in Requests : Fits(q)'
  <2> HIDE DEF Fits
  <2> QED BY <1>3, <1>8
<1> HIDE DEF Fits
<1> QED BY <1>4, <1>5, <1>6, <1>7, <1>8 DEF DriveNext, RemoveStudent, Tick, Sweep, driveStudentVars

\* Only finitely many requests are under way.
LEMMA BusyIsFinite ==
  ASSUME DriveIInv, IsFiniteSet(BusyRequests), [DriveNext]_driveStudentVars
  PROVE  IsFiniteSet(BusyRequests')
<1>1. ASSUME NEW r \in Requests, \A q \in Requests \ {r} : pc'[q] = pc[q] PROVE IsFiniteSet(BusyRequests')
  <2>1. IsFiniteSet(BusyRequests \cup {r})
    BY FS_AddElement
  <2>2. BusyRequests' \subseteq BusyRequests \cup {r}
    BY <1>1 DEF BusyRequests
  <2> QED BY <2>1, <2>2, FS_Subset
<1>2. ASSUME NEW r \in Requests, CellStarts(r) \/ StudentStarts(r)
      PROVE  \A q \in Requests \ {r} : pc'[q] = pc[q]
  <2>1. PICK j, label : Begin(r, j, label)
    BY <1>2, StartsFit DEF DriveIInv
  <2> QED BY <2>1 DEF Begin, DriveIInv, TypesFit, JobsFit
<1>3. ASSUME NEW r \in Requests, Proceed(r) PROVE \A q \in Requests \ {r} : pc'[q] = pc[q]
  BY <1>3, ProceedTells
<1>4. ASSUME Crash PROVE IsFiniteSet(BusyRequests')
  <2>1. BusyRequests' \subseteq BusyRequests
    BY <1>4 DEF Crash, BusyRequests
  <2> QED BY <2>1, FS_Subset
<1>5. ASSUME pc' = pc PROVE IsFiniteSet(BusyRequests')
  BY <1>5 DEF BusyRequests
<1> QED BY <1>1, <1>2, <1>3, <1>4, <1>5 DEF DriveNext, RemoveStudent, Tick, Sweep, driveStudentVars

\* What the next event of a request is.
LEMMA NextEvent ==
  ASSUME DriveIInv, NEW r \in Requests, pc[r] = "log", NEW s \in DOMAIN job[r].seen
  PROVE  /\ s \in Students
         /\ Event(job[r].op, job[r].seen[s].from, job[r].to) \in DriveEvent
  BY JobRows DEF Event, DriveEvent

\* Trails stay sequences of events.
LEMMA TrailTyped ==
  ASSUME DriveIInv, trail \in [Students -> Seq(DriveEvent)], [DriveNext]_driveStudentVars
  PROVE  trail' \in [Students -> Seq(DriveEvent)]
<1>1. ASSUME NEW r \in Requests, LogEvents(r) PROVE trail' \in [Students -> Seq(DriveEvent)]
  <2> DEFINE e(s) == Event(job[r].op, job[r].seen[s].from, job[r].to)
  <2>1. /\ pc[r] = "log"
        /\ trail' = [s \in Students |-> IF s \in DOMAIN job[r].seen THEN Append(trail[s], e(s)) ELSE trail[s]]
    BY <1>1 DEF LogEvents
  <2>2. \A s \in DOMAIN job[r].seen : e(s) \in DriveEvent
    BY <2>1, NextEvent
  <2> HIDE DEF e
  <2> QED BY <2>1, <2>2
<1>2. ASSUME NEW r \in Requests, CommitUpload(r) PROVE trail' \in [Students -> Seq(DriveEvent)]
  <2>1. /\ Event("outcome", "accepted", "selected") \in DriveEvent
        /\ Event("selection_updated", "selected", "selected") \in DriveEvent
    BY DEF Event, DriveEvent, RowOps, Standings, Outcomes
  <2> QED BY <1>2, <2>1 DEF CommitUpload
<1>3. ASSUME Sweep PROVE trail' \in [Students -> Seq(DriveEvent)]
  <2>1. Event("denied", "invited", "denied") \in DriveEvent
    BY DEF Event, DriveEvent, RowOps, Standings
  <2> QED BY <1>3, <2>1 DEF Sweep, Extend
<1>4. ASSUME NEW s \in Students, RemoveStudent(s) PROVE trail' \in [Students -> Seq(DriveEvent)]
  <2>1. <<>> \in Seq(DriveEvent)
    OBVIOUS
  <2> QED BY <1>4, <2>1 DEF RemoveStudent
<1>5. ASSUME NEW r \in Requests, CellStarts(r) \/ StudentStarts(r) PROVE trail' = trail
  BY <1>5, StartsFit DEF DriveIInv, ReadOnly
<1>6. ASSUME NEW r \in Requests, Proceed(r), ~LogEvents(r), ~CommitUpload(r) PROVE trail' = trail
  BY <1>6 DEF Proceed, InsertRows, RereadRows, WriteInvite, WriteRevoke, WriteOutcome, WriteSelection,
     WriteResponse, LogFails, SyncDrivePlacements, SetStatus, LogStatusChange, LoadDrive, SaveDrive, ReadOnly
<1>7. Tick \/ Crash \/ UNCHANGED driveStudentVars => trail' = trail
  BY DEF Tick, Crash, driveStudentVars
<1> QED BY <1>1, <1>2, <1>3, <1>4, <1>5, <1>6, <1>7 DEF DriveNext

\* Moves stay covered when none is added, or one to another status, and the
\* trail at most grows; ...
LEMMA CoveredStays ==
  ASSUME NEW s \in Students, NEW to \in Standings, Covered(s, to), IsFiniteSet(Owing(s, to)),
         Owing(s, to)' = Owing(s, to), past[s] \in Seq(Standings), trail[s] \in Seq(DriveEvent),
         past'[s] = past[s] \/ \E v \in Standings \ {to} : past'[s] = Append(past[s], v),
         trail'[s] = trail[s] \/ \E e \in DriveEvent : trail'[s] = Append(trail[s], e)
  PROVE  Covered(s, to)'
<1>1. /\ TimesTaken(past[s], to) \in Nat /\ TimesAudited(trail[s], to) \in Nat
      /\ Cardinality(Owing(s, to)) \in Nat
  <2>1. "none" \in Standings /\ Event("denied", "none", "none") \in DriveEvent
    BY DEF Event, DriveEvent, RowOps, Standings
  <2> QED BY <2>1, TakenAppended, AuditedAppended, FS_CardinalityType
<1>2. TimesTaken(past'[s], to) = TimesTaken(past[s], to)
  <2>1. ASSUME NEW v \in Standings \ {to}, past'[s] = Append(past[s], v) PROVE <1>2!:
    <3>1. TimesTaken(Append(past[s], v), to) = TimesTaken(past[s], to) + IF v = to THEN 1 ELSE 0
      BY TakenAppended
    <3> QED BY <1>1, <2>1, <3>1
  <2> QED BY <2>1
<1>3. TimesAudited(trail'[s], to) \in {TimesAudited(trail[s], to), TimesAudited(trail[s], to) + 1}
  <2>1. ASSUME NEW e \in DriveEvent, trail'[s] = Append(trail[s], e) PROVE <1>3!:
    <3>1. TimesAudited(Append(trail[s], e), to)
            = TimesAudited(trail[s], to) + IF e.to = to /\ e.from # to THEN 1 ELSE 0
      BY AuditedAppended
    <3>2. CASE e.to = to /\ e.from # to
      BY <1>1, <2>1, <3>1, <3>2
    <3>3. CASE ~(e.to = to /\ e.from # to)
      BY <1>1, <2>1, <3>1, <3>3
    <3> QED BY <3>2, <3>3
  <2> QED BY <2>1
<1> QED BY <1>1, <1>2, <1>3 DEF Covered

\* ... when a move and its event come together; ...
LEMMA CoveredTogether ==
  ASSUME NEW s \in Students, NEW to \in Standings, Covered(s, to), IsFiniteSet(Owing(s, to)),
         Owing(s, to)' = Owing(s, to), past[s] \in Seq(Standings), trail[s] \in Seq(DriveEvent),
         NEW e \in DriveEvent, e.to = to, e.from # to,
         past'[s] = Append(past[s], to), trail'[s] = Append(trail[s], e)
  PROVE  Covered(s, to)'
<1>1. /\ TimesTaken(past[s], to) \in Nat /\ TimesTaken(past'[s], to) = TimesTaken(past[s], to) + 1
  BY TakenAppended
<1>2. /\ TimesAudited(trail[s], to) \in Nat
      /\ TimesAudited(trail'[s], to) = TimesAudited(trail[s], to) + 1
  BY AuditedAppended
<1>3. Cardinality(Owing(s, to)) \in Nat
  BY FS_CardinalityType
<1> QED BY <1>1, <1>2, <1>3 DEF Covered

\* ... when a request that moves the row comes to owe the event; ...
LEMMA CoveredByOwing ==
  ASSUME NEW s \in Students, NEW to \in Standings, Covered(s, to), IsFiniteSet(Owing(s, to)),
         NEW r, r \notin Owing(s, to), Owing(s, to)' = Owing(s, to) \cup {r},
         past[s] \in Seq(Standings), trail[s] \in Seq(DriveEvent),
         past'[s] = Append(past[s], to), trail'[s] = trail[s]
  PROVE  Covered(s, to)'
<1>1. /\ TimesTaken(past[s], to) \in Nat /\ TimesTaken(past'[s], to) = TimesTaken(past[s], to) + 1
  BY TakenAppended
<1>2. TimesAudited(trail[s], to) \in Nat
  <2>1. Event("denied", "none", "none") \in DriveEvent
    BY DEF Event, DriveEvent, RowOps, Standings
  <2> QED BY <2>1, AuditedAppended
<1>3. Cardinality(Owing(s, to)) \in Nat /\ Cardinality(Owing(s, to)') = Cardinality(Owing(s, to)) + 1
  BY FS_CardinalityType, FS_AddElement
<1> QED BY <1>1, <1>2, <1>3 DEF Covered

\* ... and when it inserts the event.
LEMMA CoveredByEvent ==
  ASSUME NEW s \in Students, NEW to \in Standings, Covered(s, to), IsFiniteSet(Owing(s, to)),
         NEW r \in Owing(s, to), Owing(s, to)' = Owing(s, to) \ {r},
         past[s] \in Seq(Standings), trail[s] \in Seq(DriveEvent),
         NEW e \in DriveEvent, e.to = to, e.from # to,
         past'[s] = past[s], trail'[s] = Append(trail[s], e)
  PROVE  Covered(s, to)'
<1>1. TimesTaken(past[s], to) \in Nat
  BY TakenAppended
<1>2. /\ TimesAudited(trail[s], to) \in Nat
      /\ TimesAudited(trail'[s], to) = TimesAudited(trail[s], to) + 1
  BY AuditedAppended
<1>3. Cardinality(Owing(s, to)) \in Nat /\ Cardinality(Owing(s, to)') = Cardinality(Owing(s, to)) - 1
  BY FS_CardinalityType, FS_RemoveElement
<1> QED BY <1>1, <1>2, <1>3 DEF Covered

\* A request that neither owed s a move to this status nor comes to.
LEMMA OwesNothing ==
  ASSUME NEW r \in Requests, NEW s, NEW to, \A q \in Requests \ {r} : pc'[q] = pc[q] /\ job'[q] = job[q],
         r \notin Owing(s, to), r \notin Owing(s, to)'
  PROVE  Owing(s, to)' = Owing(s, to)
<1>1. \A q \in Requests \ {r} : q \in Owing(s, to)' <=> q \in Owing(s, to)
  BY DEF Owing
<1>2. Owing(s, to) \subseteq Requests /\ Owing(s, to)' \subseteq Requests
  BY DEF Owing
<1> QED BY <1>1, <1>2

\* The UPDATE of a moving request leaves each move covered.
LEMMA MovingCovers ==
  ASSUME DriveIInv, AuditFits, "crash" \notin noise, NEW r \in Requests, Proceed(r),
         WriteInvite(r) \/ WriteRevoke(r) \/ WriteOutcome(r) \/ WriteResponse(r),
         NEW s \in Students, NEW to \in Standings \ {"none", "imported"}, IsFiniteSet(Owing(s, to))
  PROVE  Covered(s, to)'
<1>0. /\ TypesFit /\ Covered(s, to) /\ past[s] \in Seq(Standings) /\ trail[s] \in Seq(DriveEvent)
      /\ DOMAIN past = Students
  BY DEF DriveIInv, HistoryOf, AuditFits, RowsTyped
<1>1. \A q \in Requests \ {r} : pc'[q] = pc[q] /\ job'[q] = job[q]
  BY ProceedTells
<1>2. PICK hit, seen :
           /\ hit \subseteq DOMAIN job[r].seen
           /\ past' = Extend(past, hit, job[r].to) /\ trail' = trail /\ Returned(r, hit, seen)
           /\ pc[r] = "write" /\ job[r].op \in Moving
           /\ job[r].to \in Standings \ {"none", "imported"}
  BY MovingWrite DEF AuditFits
<1>3. r \notin Owing(s, to)
  BY <1>2 DEF Owing
<1>4. r \in Owing(s, to)' <=> s \in hit /\ to = job[r].to
  <2>1. CASE hit = {}
    BY <1>0, <1>2, <2>1, ReturnsRows DEF Owing
  <2>2. CASE hit # {}
    <3>1. /\ pc'[r] = "log" /\ job'[r].op = job[r].op /\ job'[r].to = job[r].to
          /\ job'[r].seen = [x \in hit |-> seen[x]]
      BY <1>0, <1>2, <2>2, ReturnsRows
    <3> QED BY <1>2, <3>1 DEF Owing
  <2> QED BY <2>1, <2>2
<1>5. CASE s \in hit /\ to = job[r].to
  <2>1. Owing(s, to)' = Owing(s, to) \cup {r}
    <3>1. \A q \in Requests \ {r} : q \in Owing(s, to)' <=> q \in Owing(s, to)
      BY <1>1 DEF Owing
    <3>2. Owing(s, to) \subseteq Requests /\ Owing(s, to)' \subseteq Requests
      BY DEF Owing
    <3> QED BY <1>4, <1>5, <3>1, <3>2
  <2>2. past'[s] = Append(past[s], to) /\ trail'[s] = trail[s]
    BY <1>2, <1>5 DEF Extend
  <2> QED BY <1>0, <1>3, <2>1, <2>2, CoveredByOwing
<1>6. CASE ~(s \in hit /\ to = job[r].to)
  <2>1. Owing(s, to)' = Owing(s, to)
    BY <1>1, <1>3, <1>4, <1>6, OwesNothing
  <2>2. /\ past'[s] = past[s] \/ \E v \in Standings \ {to} : past'[s] = Append(past[s], v)
        /\ trail'[s] = trail[s]
    BY <1>2, <1>6 DEF Extend
  <2> QED BY <1>0, <2>1, <2>2, CoveredStays
<1> QED BY <1>5, <1>6

\* The events of a request cover what it owed.
LEMMA LoggingCovers ==
  ASSUME DriveIInv, AuditFits, "crash" \notin noise, NEW r \in Requests, Proceed(r), LogEvents(r),
         NEW s \in Students, NEW to \in Standings \ {"none", "imported"}, IsFiniteSet(Owing(s, to))
  PROVE  Covered(s, to)'
<1>0. /\ TypesFit /\ Covered(s, to) /\ past[s] \in Seq(Standings) /\ trail[s] \in Seq(DriveEvent)
      /\ r \in DOMAIN pc
  BY DEF DriveIInv, HistoryOf, AuditFits, TypesFit, JobsFit
<1>1. \A q \in Requests \ {r} : pc'[q] = pc[q] /\ job'[q] = job[q]
  BY ProceedTells
<1>2. /\ pc[r] = "log" /\ past' = past /\ pc'[r] # "log"
      /\ s \in DOMAIN job[r].seen => trail'[s] = Append(trail[s], Event(job[r].op, job[r].seen[s].from, job[r].to))
      /\ s \notin DOMAIN job[r].seen => trail'[s] = trail[s]
  BY <1>0 DEF LogEvents, Continue, End
<1>3. r \notin Owing(s, to)'
  BY <1>2 DEF Owing
<1> DEFINE e == Event(job[r].op, job[r].seen[s].from, job[r].to)
<1>4. s \in DOMAIN job[r].seen => e \in DriveEvent
  BY <1>2, NextEvent
<1>5. CASE r \in Owing(s, to)
  <2>1. s \in DOMAIN job[r].seen /\ e.to = to /\ e.from # to
    BY <1>2, <1>5 DEF Owing, Event, AuditFits, EventsFit
  <2>2. Owing(s, to)' = Owing(s, to) \ {r}
    <3>1. \A q \in Requests \ {r} : q \in Owing(s, to)' <=> q \in Owing(s, to)
      BY <1>1 DEF Owing
    <3>2. Owing(s, to) \subseteq Requests /\ Owing(s, to)' \subseteq Requests
      BY DEF Owing
    <3> QED BY <1>3, <3>1, <3>2
  <2> HIDE DEF e
  <2>3. trail'[s] = Append(trail[s], e)
    BY <1>2, <2>1 DEF e
  <2> QED BY <1>0, <1>2, <1>4, <1>5, <2>1, <2>2, <2>3, CoveredByEvent
<1>6. CASE r \notin Owing(s, to)
  <2>1. Owing(s, to)' = Owing(s, to)
    BY <1>1, <1>3, <1>6, OwesNothing
  <2>2. /\ past'[s] = past[s]
        /\ trail'[s] = trail[s] \/ \E x \in DriveEvent : trail'[s] = Append(trail[s], x)
    BY <1>2, <1>4
  <2> QED BY <1>0, <2>1, <2>2, CoveredStays
<1> QED BY <1>5, <1>6

\* The selection sheet and the sweep write rows and events in one transaction.
LEMMA UploadCovers ==
  ASSUME DriveIInv, AuditFits, "crash" \notin noise, NEW r \in Requests, Proceed(r), CommitUpload(r),
         NEW s \in Students, NEW to \in Standings \ {"none", "imported"}, IsFiniteSet(Owing(s, to))
  PROVE  Covered(s, to)'
<1>0. /\ TypesFit /\ Covered(s, to) /\ past[s] \in Seq(Standings) /\ trail[s] \in Seq(DriveEvent)
      /\ r \in DOMAIN pc
  BY DEF DriveIInv, HistoryOf, AuditFits, TypesFit, JobsFit
<1> DEFINE hit == In(DOMAIN job[r].seen, {"accepted", "selected"})
           new == {x \in hit : job[r].seen[x].from = "accepted"}
           moved == Event("outcome", "accepted", "selected")
           updated == Event("selection_updated", "selected", "selected")
<1>1. Owing(s, to)' = Owing(s, to)
  <2>1. \A q \in Requests \ {r} : pc'[q] = pc[q] /\ job'[q] = job[q]
    BY ProceedTells
  <2>2. pc[r] # "log" /\ pc'[r] # "log"
    BY <1>0 DEF CommitUpload, End, Continue
  <2> QED BY <2>1, <2>2, OwesNothing DEF Owing
<1>2. /\ past' = Extend(past, In(hit, {"accepted"}), "selected")
      /\ trail' = [x \in Students |-> IF x \in new THEN Append(trail[x], moved)
                                     ELSE IF x \in hit THEN Append(trail[x], updated) ELSE trail[x]]
  BY DEF CommitUpload
<1>3. \A x \in In(hit, {"accepted"}) : x \in new
  BY DEF AuditFits, EventsFit, CommitUpload, In
<1>4. /\ moved \in DriveEvent /\ updated \in DriveEvent /\ moved.to = "selected" /\ moved.from = "accepted"
  BY DEF Event, DriveEvent, RowOps, Standings, Outcomes
<1> HIDE DEF hit, new, moved, updated
<1>5. CASE s \in In(hit, {"accepted"}) /\ to = "selected"
  <2>1. past'[s] = Append(past[s], to) /\ trail'[s] = Append(trail[s], moved)
    BY <1>2, <1>3, <1>5 DEF Extend
  <2> QED BY <1>0, <1>1, <1>4, <1>5, <2>1, CoveredTogether
<1>6. CASE ~(s \in In(hit, {"accepted"}) /\ to = "selected")
  <2>1. past'[s] = past[s] \/ \E v \in Standings \ {to} : past'[s] = Append(past[s], v)
    <3>1. "selected" \in Standings
      BY DEF Standings, Outcomes
    <3> QED BY <1>2, <1>6, <3>1 DEF Extend
  <2>2. trail'[s] = trail[s] \/ \E x \in DriveEvent : trail'[s] = Append(trail[s], x)
    BY <1>2, <1>4
  <2> QED BY <1>0, <1>1, <2>1, <2>2, CoveredStays
<1> QED BY <1>5, <1>6

LEMMA SweepCovers ==
  ASSUME DriveIInv, AuditFits, "crash" \notin noise, Sweep,
         NEW s \in Students, NEW to \in Standings \ {"none", "imported"}, IsFiniteSet(Owing(s, to))
  PROVE  Covered(s, to)'
<1>0. /\ Covered(s, to) /\ past[s] \in Seq(Standings) /\ trail[s] \in Seq(DriveEvent)
  BY DEF DriveIInv, HistoryOf, AuditFits
<1> DEFINE late == In(Students, {"invited"})
           e == Event("denied", "invited", "denied")
<1>1. Owing(s, to)' = Owing(s, to)
  BY DEF Sweep, Owing
<1>2. past' = Extend(past, late, "denied") /\ trail' = Extend(trail, late, e)
  BY DEF Sweep
<1>3. e \in DriveEvent /\ e.to = "denied" /\ e.from = "invited" /\ "denied" \in Standings
  BY DEF Event, DriveEvent, RowOps, Standings
<1> HIDE DEF late, e
<1>4. CASE s \in late /\ to = "denied"
  <2>1. past'[s] = Append(past[s], to) /\ trail'[s] = Append(trail[s], e)
    BY <1>2, <1>4 DEF Extend
  <2> QED BY <1>0, <1>1, <1>3, <1>4, <2>1, CoveredTogether
<1>5. CASE ~(s \in late /\ to = "denied")
  <2>1. past'[s] = past[s] \/ \E v \in Standings \ {to} : past'[s] = Append(past[s], v)
    BY <1>2, <1>3, <1>5 DEF Extend
  <2>2. trail'[s] = trail[s] \/ \E x \in DriveEvent : trail'[s] = Append(trail[s], x)
    BY <1>2, <1>3 DEF Extend
  <2> QED BY <1>0, <1>1, <2>1, <2>2, CoveredStays
<1> QED BY <1>4, <1>5

\* The other statements of a request move no row from the invitation on, and
\* none of them owes an event it does not insert.
LEMMA OthersCover ==
  ASSUME DriveIInv, AuditFits, "crash" \notin noise, NEW r \in Requests, Proceed(r),
         \/ InsertRows(r) \/ RereadRows(r) \/ WriteSelection(r) \/ LogFails(r) \/ SyncDrivePlacements(r)
         \/ SetStatus(r) \/ LogStatusChange(r) \/ LoadDrive(r) \/ SaveDrive(r),
         NEW s \in Students, NEW to \in Standings \ {"none", "imported"}, IsFiniteSet(Owing(s, to))
  PROVE  Covered(s, to)'
<1>0. /\ TypesFit /\ Covered(s, to) /\ past[s] \in Seq(Standings) /\ trail[s] \in Seq(DriveEvent)
      /\ r \in DOMAIN pc /\ r \in DOMAIN job
  BY DEF DriveIInv, HistoryOf, AuditFits, TypesFit, JobsFit
<1>1. \A q \in Requests \ {r} : pc'[q] = pc[q] /\ job'[q] = job[q]
  BY ProceedTells
<1>2. r \notin Owing(s, to)
  <2>1. ~LogFails(r) => pc[r] # "log"
    BY DEF InsertRows, RereadRows, WriteSelection, SyncDrivePlacements, SetStatus, LogStatusChange,
           LoadDrive, SaveDrive
  <2>2. LogFails(r) => job[r].op \notin Moving
    BY DEF LogFails, Lost, AuditFits, EventsFit, Final
  <2> QED BY <2>1, <2>2 DEF Owing
<1>3. r \notin Owing(s, to)'
  <2> SUFFICES ASSUME pc'[r] = "log", job'[r].op \in Moving PROVE FALSE
    BY DEF Owing
  <2>1. CASE RereadRows(r)
    BY <1>0, <2>1 DEF RereadRows, Continue, Task, Moving
  <2>2. CASE WriteSelection(r)
    <3>1. PICK hit : Returned(r, hit, Found(hit)) /\ job[r].op = "selection_updated"
      BY <2>2 DEF WriteSelection
    <3> QED BY <1>0, <3>1, ReturnsRows DEF Moving
  <2>3. ~RereadRows(r) /\ ~WriteSelection(r) => pc'[r] # "log"
    BY <1>0 DEF InsertRows, LogFails, SyncDrivePlacements, SetStatus, LogStatusChange, LoadDrive, SaveDrive,
       Continue, End
  <2> QED BY <2>1, <2>2, <2>3
<1>4. trail' = trail
  BY DEF InsertRows, RereadRows, WriteSelection, LogFails, SyncDrivePlacements, SetStatus, LogStatusChange,
     LoadDrive, SaveDrive, ReadOnly
<1>5. past'[s] = past[s] \/ \E v \in Standings \ {to} : past'[s] = Append(past[s], v)
  <2>1. CASE InsertRows(r)
    BY <2>1 DEF InsertRows, Extend, Standings
  <2>2. CASE ~InsertRows(r)
    BY <2>2 DEF RereadRows, WriteSelection, LogFails, SyncDrivePlacements, SetStatus, LogStatusChange,
       LoadDrive, SaveDrive, ReadOnly
  <2> QED BY <2>1, <2>2
<1>6. Owing(s, to)' = Owing(s, to)
  BY <1>1, <1>2, <1>3, OwesNothing
<1> QED BY <1>0, <1>4, <1>5, <1>6, CoveredStays

\* Every step leaves the moves covered.
LEMMA AuditStep == ASSUME DriveIInv, AuditFits, [DriveNext]_driveStudentVars PROVE AuditFits'
<1>0. /\ EventsFit' /\ trail' \in [Students -> Seq(DriveEvent)] /\ IsFiniteSet(BusyRequests')
  BY EventsStep, TrailTyped, BusyIsFinite DEF AuditFits
<1> SUFFICES ASSUME "crash" \notin noise', NEW s \in Students, NEW to \in Standings \ {"none", "imported"}
             PROVE  Covered(s, to)'
  BY <1>0 DEF AuditFits
<1>1. IsFiniteSet(Owing(s, to))
  <2>1. Owing(s, to) \subseteq BusyRequests
    BY DEF Owing, BusyRequests
  <2> QED BY <2>1, FS_Subset DEF AuditFits
<1>2. ASSUME "crash" \notin noise
      PROVE  Covered(s, to) /\ past[s] \in Seq(Standings) /\ trail[s] \in Seq(DriveEvent)
  BY <1>2 DEF AuditFits, DriveIInv, HistoryOf
<1>3. ASSUME NEW r \in Requests, Proceed(r) PROVE Covered(s, to)'
  <2>1. "crash" \notin noise
    BY <1>3, ProceedTells
  <2> QED BY <1>1, <1>3, <2>1, MovingCovers, LoggingCovers, UploadCovers, OthersCover DEF Proceed
<1>4. ASSUME NEW r \in Requests, CellStarts(r) \/ StudentStarts(r) PROVE Covered(s, to)'
  <2>1. PICK j, label : Begin(r, j, label) /\ Fresh(label, j) /\ ReadOnly
    BY <1>4, StartsFit DEF DriveIInv
  <2>2. /\ \A q \in Requests \ {r} : pc'[q] = pc[q] /\ job'[q] = job[q]
        /\ pc[r] = "idle" /\ pc'[r] = label /\ job'[r] = j /\ past' = past /\ trail' = trail
        /\ "crash" \notin noise
    BY <2>1 DEF Begin, Overlapping, ReadOnly, DriveIInv, TypesFit, JobsFit
  <2>3. r \notin Owing(s, to) /\ r \notin Owing(s, to)'
    BY <2>1, <2>2 DEF Owing, Fresh, Moving
  <2>4. Owing(s, to)' = Owing(s, to)
    BY <2>2, <2>3, OwesNothing
  <2> QED BY <1>1, <1>2, <2>2, <2>4, CoveredStays
<1>5. ASSUME NEW x \in Students, RemoveStudent(x) PROVE Covered(s, to)'
  <2>1. /\ Owing(s, to)' = Owing(s, to) /\ "crash" \notin noise
    BY <1>5 DEF RemoveStudent, Owing, Overlapping
  <2>2. CASE s # x
    <3>1. past'[s] = past[s] /\ trail'[s] = trail[s]
      BY <1>5, <2>2 DEF RemoveStudent, DriveIInv, RowsTyped, AuditFits
    <3> QED BY <1>1, <1>2, <2>1, <3>1, CoveredStays
  <2>3. CASE s = x
    <3>1. past'[s] = <<>> /\ trail'[s] = <<>>
      BY <1>5, <2>3 DEF RemoveStudent, DriveIInv, RowsTyped, AuditFits
    <3>2. TimesTaken(<<>>, to) = 0 /\ TimesAudited(<<>>, to) = 0
      <4>1. /\ {i \in DOMAIN <<>> : <<>>[i] = to} = {}
            /\ {i \in DOMAIN <<>> : <<>>[i].to = to /\ <<>>[i].from # to} = {}
        OBVIOUS
      <4> QED BY <4>1, FS_EmptySet DEF TimesTaken, TimesAudited
    <3> QED BY <1>1, <2>1, <3>1, <3>2, FS_CardinalityType DEF Covered
  <2> QED BY <2>2, <2>3
<1>6. ASSUME Sweep PROVE Covered(s, to)'
  <2>1. "crash" \notin noise
    BY <1>6 DEF Sweep, Overlapping
  <2> QED BY <1>1, <1>6, <2>1, SweepCovers
<1>7. ~Crash
  BY DEF Crash
<1>8. ASSUME Tick \/ UNCHANGED driveStudentVars PROVE Covered(s, to)'
  <2>1. noise' = noise /\ past' = past /\ trail' = trail /\ Owing(s, to)' = Owing(s, to)
    BY <1>8 DEF Tick, driveStudentVars, Owing
  <2> QED BY <1>1, <1>2, <2>1, CoveredStays
<1> QED BY <1>3, <1>4, <1>5, <1>6, <1>7, <1>8 DEF DriveNext

-----------------------------------------------------------------------------
(* One request at a time: the trail is the history *)

AuditIInv == TellIInv /\ AuditFits /\ TrailFits

\* The last status of a history is the row's.
LEMMA LastIsStatus ==
  ASSUME DriveIInv, NEW s \in Students, status[s] = "none" => past[s] = <<>>
  PROVE  /\ past[s] \in Seq(Standings) /\ LastOf(past[s]) = status[s] /\ status[s] \in Standings
  BY DEF DriveIInv, HistoryOf, LastOf, RowsTyped

LEMMA RecordsNothing == Records(<<>>, <<>>)
<1>1. MovesIn(<<>>) = {} /\ Len(<<>>) = 0
  BY DEF MovesIn
<1> QED BY <1>1, RecordsMoves, FS_EmptySet

\* An UPDATE of moved rows leaves their events to its request.
LEMMA MovingLags ==
  ASSUME DriveIInv, AuditFits, TrailFits, noise = {}, NEW r \in Requests, AsRead(r),
         WriteInvite(r) \/ WriteRevoke(r) \/ WriteOutcome(r) \/ WriteResponse(r),
         \A s \in Students : Records(trail[s], past[s])
  PROVE  /\ \A s \in Students : Records(trail[s], past[s])' \/ (Logging(r)' /\ s \in DOMAIN job'[r].seen)
         /\ Logging(r)' => \A s \in DOMAIN job'[r].seen : LagsBy(r, s)'
         /\ AsRead(r)'
<1>0. TypesFit /\ DOMAIN past = Students
  BY DEF DriveIInv, RowsTyped
<1>1. PICK hit, seen :
           /\ hit \subseteq DOMAIN job[r].seen
           /\ status' = Stamp(status, hit, job[r].to) /\ past' = Extend(past, hit, job[r].to)
           /\ rowId' = rowId /\ trail' = trail /\ Returned(r, hit, seen)
           /\ \A s \in hit : /\ seen[s].id = rowId[s] /\ seen[s].from # job[r].to
                             /\ \/ job[r].op \in {"invited", "revoked"} /\ seen[s] = job[r].seen[s]
                                \/ seen[s].from = status[s]
           /\ pc[r] = "write" /\ job[r].op \in Moving
           /\ job[r].to \in Standings \ {"none", "imported"}
  BY MovingWrite DEF AuditFits
<1>2. /\ hit \subseteq Students
      /\ \A s \in hit : seen[s].from = status[s]
  BY <1>1, JobRows DEF AsRead
<1>3. \A s \in Students \ hit : Records(trail[s], past[s])'
  BY <1>1 DEF Extend
<1>4. CASE hit = {}
  <2>1. pc'[r] = "idle"
    BY <1>0, <1>1, <1>4, ReturnsRows
  <2> QED BY <1>3, <1>4, <2>1 DEF AsRead, Logging
<1>5. CASE hit # {}
  <2>1. /\ pc'[r] = "log" /\ job'[r].op = job[r].op /\ job'[r].to = job[r].to
        /\ job'[r].seen = [s \in hit |-> seen[s]]
    BY <1>0, <1>1, <1>5, ReturnsRows
  <2>2. Logging(r)' /\ DOMAIN job'[r].seen = hit
    BY <1>1, <2>1 DEF Logging
  <2>3. ASSUME NEW s \in hit PROVE LagsBy(r, s)'
    <3>1. past[s] \in Seq(Standings) /\ LastOf(past[s]) = status[s]
      BY <1>2, LastIsStatus DEF TrailFits
    <3>2. /\ status'[s] = job[r].to /\ past'[s] = Append(past[s], job[r].to) /\ trail'[s] = trail[s]
          /\ rowId'[s] = job'[r].seen[s].id
      BY <1>1, <1>2, <2>1 DEF Stamp, Extend
    <3>3. job'[r].seen[s].from = LastOf(past[s]) /\ LastOf(past[s]) # job'[r].to
      BY <1>1, <1>2, <2>1, <3>1
    <3>4. Records(trail'[s], past[s]) /\ past'[s] = Append(past[s], job'[r].to)
      BY <1>2, <2>1, <3>2
    <3> QED BY <1>1, <1>2, <3>1, <3>2, <3>3, <3>4 DEF LagsBy
  <2> QED BY <1>3, <2>1, <2>2, <2>3 DEF AsRead
<1> QED BY <1>4, <1>5

\* Inserted rows leave their events to the import.
LEMMA ImportLags ==
  ASSUME DriveIInv, TrailFits, noise = {}, NEW r \in Requests, AsRead(r), InsertRows(r),
         \A s \in Students : Records(trail[s], past[s])
  PROVE  /\ \A s \in Students : Records(trail[s], past[s])' \/ (Logging(r)' /\ s \in DOMAIN job'[r].seen)
         /\ Logging(r)' => \A s \in DOMAIN job'[r].seen : LagsBy(r, s)'
         /\ AsRead(r)'
<1>0. r \in DOMAIN pc /\ r \in DOMAIN job
  BY DEF DriveIInv, TypesFit, JobsFit
<1>1. /\ pc[r] = "insert" /\ pc'[r] = "reread" /\ job'[r] = job[r] /\ trail' = trail
      /\ DOMAIN job[r].seen \subseteq Students
      /\ \A s \in DOMAIN job[r].seen : status[s] = "none" /\ job[r].seen[s].from = "none"
  BY <1>0, JobRows DEF InsertRows, Continue, AsRead
<1>2. job[r].to = "imported"
  BY <1>1 DEF DriveIInv, TypesFit, JobsFit, FitsAt, ToFits
<1>3. /\ status' = Stamp(status, DOMAIN job[r].seen, "imported")
      /\ past' = Extend(past, DOMAIN job[r].seen, "imported")
  <2>1. In(DOMAIN job[r].seen, {"none"}) = DOMAIN job[r].seen
    BY <1>1 DEF In
  <2> QED BY <2>1 DEF InsertRows
<1>4. ASSUME NEW s \in DOMAIN job[r].seen PROVE LagsBy(r, s)'
  <2>1. /\ past[s] = <<>> /\ past[s] \in Seq(Standings) /\ LastOf(past[s]) = "none" /\ s \in Students
    BY <1>1, LastIsStatus DEF TrailFits
  <2>2. /\ status'[s] = "imported" /\ past'[s] = Append(past[s], job'[r].to) /\ trail'[s] = trail[s]
        /\ job'[r].seen[s].from = LastOf(past[s]) /\ LastOf(past[s]) # job'[r].to
        /\ Records(trail'[s], past[s])
    BY <1>1, <1>2, <1>3, <2>1 DEF Stamp, Extend
  <2> QED BY <1>1, <2>1, <2>2 DEF LagsBy
<1>5. \A s \in Students \ DOMAIN job[r].seen : Records(trail[s], past[s])'
  BY <1>1, <1>3 DEF Extend
<1> QED BY <1>1, <1>4, <1>5 DEF Logging, AsRead

\* The events inserted are just those the trail lacked.
LEMMA LoggingRecords ==
  ASSUME DriveIInv, AuditFits, TrailFits, noise = {}, NEW r \in Requests, AsRead(r), LogEvents(r),
         \A s \in Students : Records(trail[s], past[s]) \/ (Logging(r) /\ s \in DOMAIN job[r].seen),
         Logging(r) => \A s \in DOMAIN job[r].seen : LagsBy(r, s)
  PROVE  \A s \in Students : Records(trail[s], past[s])'
<1> SUFFICES ASSUME NEW s \in Students PROVE Records(trail'[s], past'[s])
  OBVIOUS
<1> DEFINE e == Event(job[r].op, job[r].seen[s].from, job[r].to)
<1>1. /\ pc[r] = "log" /\ past' = past
      /\ s \in DOMAIN job[r].seen => trail'[s] = Append(trail[s], e)
      /\ s \notin DOMAIN job[r].seen => trail'[s] = trail[s]
  BY DEF LogEvents
<1>2. trail[s] \in Seq(DriveEvent) /\ (s \in DOMAIN job[r].seen => e \in DriveEvent)
  BY <1>1, NextEvent DEF AuditFits
<1>3. e.from = job[r].seen[s].from /\ e.to = job[r].to
  BY DEF Event
<1> HIDE DEF e
<1>4. CASE s \notin DOMAIN job[r].seen
  BY <1>1, <1>4
<1>5. CASE s \in DOMAIN job[r].seen /\ Logging(r)
  <2>1. PICK p \in Seq(Standings) : /\ past[s] = Append(p, job[r].to) /\ Records(trail[s], p)
                                   /\ job[r].seen[s].from = LastOf(p) /\ LastOf(p) # job[r].to
    BY <1>5 DEF LagsBy
  <2>2. Records(Append(trail[s], e), Append(p, e.to))
    BY <1>2, <1>3, <1>5, <2>1, RecordsGrow
  <2> QED BY <1>1, <1>3, <1>5, <2>1, <2>2
<1>6. CASE s \in DOMAIN job[r].seen /\ ~Logging(r)
  <2>1. e.from = e.to
    BY <1>1, <1>3, <1>6 DEF AsRead
  <2>2. Records(Append(trail[s], e), past[s])
    BY <1>2, <1>6, <2>1, RecordsKept
  <2> QED BY <1>1, <1>6, <2>2
<1> QED BY <1>4, <1>5, <1>6

\* The transaction of the selection sheet writes rows and events alike.
LEMMA UploadRecords ==
  ASSUME DriveIInv, AuditFits, TrailFits, noise = {}, NEW r \in Requests, AsRead(r), CommitUpload(r),
         \A s \in Students : Records(trail[s], past[s])
  PROVE  \A s \in Students : Records(trail[s], past[s])'
<1> SUFFICES ASSUME NEW s \in Students PROVE Records(trail'[s], past'[s])
  OBVIOUS
<1> DEFINE hit == In(DOMAIN job[r].seen, {"accepted", "selected"})
           new == {x \in hit : job[r].seen[x].from = "accepted"}
           moved == Event("outcome", "accepted", "selected")
           updated == Event("selection_updated", "selected", "selected")
<1>1. /\ past' = Extend(past, In(hit, {"accepted"}), "selected")
      /\ trail' = [x \in Students |-> IF x \in new THEN Append(trail[x], moved)
                                     ELSE IF x \in hit THEN Append(trail[x], updated) ELSE trail[x]]
  BY DEF CommitUpload
<1>2. new = In(hit, {"accepted"})
  BY DEF AsRead, CommitUpload, In
<1>3. /\ moved \in DriveEvent /\ moved.to = "selected" /\ moved.from = "accepted"
      /\ updated \in DriveEvent /\ updated.to = updated.from
  BY DEF Event, DriveEvent, RowOps, Standings, Outcomes
<1>4. /\ past[s] \in Seq(Standings) /\ LastOf(past[s]) = status[s] /\ trail[s] \in Seq(DriveEvent)
  BY LastIsStatus DEF TrailFits, AuditFits
<1>5. s \in new => status[s] = "accepted"
  BY <1>2 DEF In
<1> HIDE DEF hit, new, moved, updated
<1>6. CASE s \in new
  <2>1. Records(Append(trail[s], moved), Append(past[s], moved.to))
    BY <1>3, <1>4, <1>5, <1>6, RecordsGrow
  <2> QED BY <1>1, <1>2, <1>3, <1>6, <2>1 DEF Extend
<1>7. CASE s \in hit \ new
  <2>1. Records(Append(trail[s], updated), past[s])
    BY <1>3, <1>4, <1>7, RecordsKept
  <2> QED BY <1>1, <1>2, <1>7, <2>1 DEF Extend
<1>8. CASE s \notin hit /\ s \notin new
  BY <1>1, <1>2, <1>8 DEF Extend
<1> QED BY <1>6, <1>7, <1>8

\* So does the sweep; and a row removed takes its trail with it.
LEMMA SweepRecords ==
  ASSUME DriveIInv, AuditFits, TrailFits, Sweep \/ \E x \in Students : RemoveStudent(x),
         \A s \in Students : Records(trail[s], past[s])
  PROVE  \A s \in Students : Records(trail[s], past[s])'
<1> SUFFICES ASSUME NEW s \in Students PROVE Records(trail'[s], past'[s])
  OBVIOUS
<1>1. ASSUME NEW x \in Students, RemoveStudent(x) PROVE Records(trail'[s], past'[s])
  <2>1. DOMAIN past = Students /\ DOMAIN trail = Students
    BY DEF DriveIInv, RowsTyped, AuditFits
  <2> QED BY <1>1, <2>1, RecordsNothing DEF RemoveStudent
<1>2. ASSUME Sweep PROVE Records(trail'[s], past'[s])
  <2> DEFINE late == In(Students, {"invited"})
             e == Event("denied", "invited", "denied")
  <2>1. past' = Extend(past, late, "denied") /\ trail' = Extend(trail, late, e)
    BY <1>2 DEF Sweep
  <2>2. e \in DriveEvent /\ e.to = "denied" /\ e.from = "invited"
    BY DEF Event, DriveEvent, RowOps, Standings
  <2>3. /\ past[s] \in Seq(Standings) /\ LastOf(past[s]) = status[s] /\ trail[s] \in Seq(DriveEvent)
    BY LastIsStatus DEF TrailFits, AuditFits
  <2>4. s \in late => status[s] = "invited"
    BY DEF In
  <2> HIDE DEF late, e
  <2>5. CASE s \in late
    <3>1. Records(Append(trail[s], e), Append(past[s], e.to))
      BY <2>2, <2>3, <2>4, <2>5, RecordsGrow
    <3> QED BY <2>1, <2>2, <2>5, <3>1 DEF Extend
  <2>6. CASE s \notin late
    BY <2>1, <2>6 DEF Extend
  <2> QED BY <2>5, <2>6
<1> QED BY <1>1, <1>2

\* The one request under way keeps the trail but for its own events.
LEMMA RequestTrail ==
  ASSUME DriveIInv, AuditFits, TrailFits, noise = {}, NEW r \in Requests, Proceed(r), AsRead(r),
         \A s \in Students : Records(trail[s], past[s]) \/ (Logging(r) /\ s \in DOMAIN job[r].seen),
         Logging(r) => \A s \in DOMAIN job[r].seen : LagsBy(r, s)
  PROVE  /\ \A s \in Students : Records(trail[s], past[s])' \/ (Logging(r)' /\ s \in DOMAIN job'[r].seen)
         /\ Logging(r)' => \A s \in DOMAIN job'[r].seen : LagsBy(r, s)'
         /\ AsRead(r)'
<1>0. /\ r \in DOMAIN pc /\ r \in DOMAIN job /\ TypesFit
  BY DEF DriveIInv, TypesFit, JobsFit
<1> DEFINE Goal == /\ \A s \in Students : Records(trail[s], past[s])' \/ (Logging(r)' /\ s \in DOMAIN job'[r].seen)
                   /\ Logging(r)' => \A s \in DOMAIN job'[r].seen : LagsBy(r, s)'
                   /\ AsRead(r)'
<1>1. ASSUME pc'[r] \notin {"insert", "reread", "write", "log"}, \A s \in Students : Records(trail[s], past[s])'
      PROVE  Goal
  BY <1>1 DEF Logging, AsRead
<1>2. ASSUME pc[r] \notin {"reread", "log"} PROVE \A s \in Students : Records(trail[s], past[s])
  BY <1>2 DEF Logging
<1>3. CASE InsertRows(r)
  <2>1. pc[r] = "insert"
    BY <1>3 DEF InsertRows
  <2> QED BY <1>2, <1>3, <2>1, ImportLags
<1>4. CASE WriteInvite(r) \/ WriteRevoke(r) \/ WriteOutcome(r) \/ WriteResponse(r)
  <2>1. pc[r] = "write"
    BY <1>4 DEF WriteInvite, WriteRevoke, WriteOutcome, WriteResponse
  <2> QED BY <1>2, <1>4, <2>1, MovingLags
<1>5. CASE RereadRows(r)
  <2>1. /\ pc[r] = "reread" /\ pc'[r] = "log" /\ job'[r].op = "imported" /\ job'[r].to = "imported"
        /\ status' = status /\ rowId' = rowId /\ past' = past /\ trail' = trail
        /\ job'[r].seen = [s \in DOMAIN job[r].seen \ In(DOMAIN job[r].seen, {"none"}) |->
                             [id |-> rowId[s], from |-> "none"]]
    BY <1>0, <1>5 DEF RereadRows, Continue, Task, ReadOnly, rows
  <2>2. Logging(r) /\ Logging(r)'
    BY <2>1 DEF Logging
  <2>3. job[r].to = "imported"
    BY <2>1 DEF DriveIInv, TypesFit, JobsFit, FitsAt, ToFits
  <2>4. DOMAIN job'[r].seen = DOMAIN job[r].seen
    <3>1. \A s \in DOMAIN job[r].seen : status[s] # "none"
      BY <2>2 DEF LagsBy
    <3> QED BY <2>1, <3>1 DEF In
  <2>5. ASSUME NEW s \in DOMAIN job[r].seen PROVE LagsBy(r, s)'
    <3>1. PICK p \in Seq(Standings) : /\ past[s] = Append(p, job[r].to) /\ Records(trail[s], p)
                                     /\ job[r].seen[s].from = LastOf(p) /\ LastOf(p) # job[r].to
      BY <2>2 DEF LagsBy
    <3>2. s \in Students /\ status[s] # "none"
      BY <2>2 DEF LagsBy
    <3>3. job'[r].seen[s].from = "none" /\ job'[r].seen[s].id = rowId[s] /\ job[r].seen[s].from = "none"
      BY <2>1, <2>4 DEF AsRead
    <3>4. /\ past'[s] = Append(p, job'[r].to) /\ Records(trail'[s], p)
          /\ job'[r].seen[s].from = LastOf(p) /\ LastOf(p) # job'[r].to
      BY <2>1, <2>3, <3>1, <3>3
    <3>5. status'[s] # "none" /\ rowId'[s] = job'[r].seen[s].id
      BY <2>1, <3>2, <3>3
    <3> QED BY <3>2, <3>4, <3>5 DEF LagsBy
  <2>6. AsRead(r)'
    BY <2>1, <2>2 DEF AsRead
  <2> QED BY <2>1, <2>2, <2>4, <2>5, <2>6
<1>6. CASE WriteSelection(r)
  <2> DEFINE hit == In(DOMAIN job[r].seen, {"selected"})
  <2>1. /\ pc[r] = "write" /\ job[r].op = "selection_updated" /\ Returned(r, hit, Found(hit))
        /\ past' = past /\ trail' = trail
    BY <1>6 DEF WriteSelection
  <2>2. \A s \in hit : Found(hit)[s].from = "selected"
    BY DEF In, Found
  <2>3. job[r].to = "selected"
    BY <2>1, JobRows DEF ToFits
  <2> HIDE DEF hit
  <2>4. CASE hit = {}
    <3>1. pc'[r] = "idle"
      BY <1>0, <2>1, <2>4, ReturnsRows
    <3> QED BY <1>1, <1>2, <2>1, <3>1
  <2>5. CASE hit # {}
    <3>1. /\ pc'[r] = "log" /\ job'[r].op = job[r].op /\ job'[r].to = job[r].to
          /\ job'[r].seen = [s \in hit |-> Found(hit)[s]]
      BY <1>0, <2>1, <2>5, ReturnsRows
    <3>2. ~Logging(r)'
      BY <2>1, <3>1 DEF Logging, Moving
    <3> QED BY <1>2, <2>1, <2>2, <2>3, <3>1, <3>2 DEF AsRead
  <2> QED BY <2>4, <2>5
<1>7. CASE CommitUpload(r)
  <2>1. pc[r] = "write" /\ pc'[r] = "idle"
    BY <1>0, <1>7 DEF CommitUpload, End, Continue
  <2> QED BY <1>1, <1>2, <1>7, <2>1, UploadRecords
<1>8. CASE LogFails(r)
  <2>1. /\ pc[r] = "log" /\ pc'[r] = "idle" /\ Lost(r) # {} /\ past' = past /\ trail' = trail
    BY <1>0, <1>8 DEF LogFails, End, Continue, ReadOnly
  <2>2. ~Logging(r)
    BY <2>1 DEF Lost, LagsBy
  <2> QED BY <1>1, <2>1, <2>2
<1>9. CASE LogEvents(r)
  <2>1. pc'[r] \in {"mirror", "idle"}
    BY <1>0, <1>9 DEF LogEvents, End, Continue
  <2>2. \A s \in Students : Records(trail[s], past[s])'
    BY <1>9, LoggingRecords
  <2> QED BY <1>1, <2>1, <2>2
<1>10. CASE \/ SyncDrivePlacements(r) \/ SetStatus(r) \/ LogStatusChange(r) \/ LoadDrive(r) \/ SaveDrive(r)
  <2>1. /\ pc[r] \notin {"reread", "log"} /\ pc'[r] \in {"idle", "logStatus", "save"}
        /\ past' = past /\ trail' = trail
    BY <1>0, <1>10 DEF SyncDrivePlacements, SetStatus, LogStatusChange, LoadDrive, SaveDrive, End, Continue, ReadOnly
  <2> QED BY <1>1, <1>2, <2>1
<1> QED BY <1>3, <1>4, <1>5, <1>6, <1>7, <1>8, <1>9, <1>10 DEF Proceed

LEMMA TrailStep ==
  ASSUME TellIInv, AuditFits, TrailFits, [DriveNext]_driveStudentVars PROVE TrailFits'
<1>0. DriveIInv
  BY DEF TellIInv
<1>1. ASSUME NEW s \in Students PROVE status'[s] = "none" => past'[s] = <<>>
  <2>1. RowMoves(s)
    BY <1>0, RowSteps DEF DriveIInv, RowsTyped, RowMoves, Keeps, driveStudentVars, rows
  <2> QED BY <2>1 DEF TrailFits, RowMoves, Keeps, Reselected, Enters, Leaves, IsInvited, IsRevoked, Responds,
                      HasOutcome, Outcomes
<1> SUFFICES ASSUME noise' = {}
    PROVE  /\ \A s \in Students :
                 Records(trail'[s], past'[s]) \/ \E r \in Requests : Logging(r)' /\ s \in DOMAIN job'[r].seen
           /\ \A r \in Requests : Logging(r)' => \A s \in DOMAIN job'[r].seen : LagsBy(r, s)'
           /\ \A r \in Requests : AsRead(r)'
  BY <1>1 DEF TrailFits
<1> DEFINE Goal == /\ \A s \in Students :
                         Records(trail'[s], past'[s]) \/ \E r \in Requests : Logging(r)' /\ s \in DOMAIN job'[r].seen
                   /\ \A r \in Requests : Logging(r)' => \A s \in DOMAIN job'[r].seen : LagsBy(r, s)'
                   /\ \A r \in Requests : AsRead(r)'
<1>2. /\ noise = {}
      /\ \A s \in Students : Records(trail[s], past[s]) \/ \E r \in Requests : Logging(r) /\ s \in DOMAIN job[r].seen
      /\ \A r \in Requests : Logging(r) => \A s \in DOMAIN job[r].seen : LagsBy(r, s)
      /\ \A r \in Requests : AsRead(r)
  BY AloneStep DEF TrailFits
<1>3. \A q \in Requests : pc[q] = "idle" => ~Logging(q) /\ AsRead(q)
  BY DEF Logging, AsRead
<1>4. \A q \in Requests : pc'[q] = "idle" => ~Logging(q)' /\ AsRead(q)'
  BY DEF Logging, AsRead
<1>5. ASSUME NEW r \in Requests, Proceed(r), \A q \in Requests \ {r} : pc[q] = "idle" /\ pc'[q] = "idle"
      PROVE  Goal
  <2>1. \A s \in Students : Records(trail[s], past[s]) \/ (Logging(r) /\ s \in DOMAIN job[r].seen)
    BY <1>2, <1>3, <1>5
  <2>2. /\ \A s \in Students : Records(trail[s], past[s])' \/ (Logging(r)' /\ s \in DOMAIN job'[r].seen)
        /\ Logging(r)' => \A s \in DOMAIN job'[r].seen : LagsBy(r, s)'
        /\ AsRead(r)'
    BY <1>0, <1>2, <1>5, <2>1, RequestTrail
  <2> QED BY <1>4, <1>5, <2>2
<1>6. ASSUME NEW r \in Requests, NEW j, NEW label, FitsAt(label, j), Fresh(label, j), ReadOnly,
             pc'[r] = label, job'[r] = j, \A q \in Requests : pc[q] = "idle",
             \A q \in Requests \ {r} : pc'[q] = "idle"
      PROVE  Goal
  <2>1. status' = status /\ past' = past /\ trail' = trail
    BY <1>6 DEF ReadOnly, rows
  <2>2. \A s \in Students : Records(trail[s], past[s])
    BY <1>2, <1>3, <1>6
  <2>3. ~Logging(r)'
    BY <1>6 DEF Logging, Fresh, Moving
  <2>4. AsRead(r)'
    BY <1>6, <2>1, <2>3 DEF AsRead, Fresh, FitsAt, ToFits
  <2> QED BY <1>4, <1>6, <2>1, <2>2, <2>3, <2>4
<1>7. ASSUME \A q \in Requests : pc[q] = "idle" /\ pc'[q] = "idle", Sweep \/ \E s \in Students : RemoveStudent(s)
      PROVE  Goal
  <2>1. \A s \in Students : Records(trail[s], past[s])
    BY <1>2, <1>3, <1>7
  <2>2. \A s \in Students : Records(trail[s], past[s])'
    BY <1>0, <1>7, <2>1, SweepRecords
  <2> QED BY <1>4, <1>7, <2>2
<1>8. ASSUME Tick \/ UNCHANGED driveStudentVars PROVE Goal
  <2>1. /\ status' = status /\ rowId' = rowId /\ past' = past /\ trail' = trail /\ pc' = pc /\ job' = job
    BY <1>8 DEF Tick, driveStudentVars, rows
  <2> QED BY <1>2, <2>1 DEF Logging, LagsBy, AsRead
<1> HIDE DEF Goal
<1>9. Goal
  BY <1>5, <1>6, <1>7, <1>8, AloneStep
<1> QED BY <1>9 DEF Goal

\* The imported rows of the start have their one event.
LEMMA DriveInit_Audit == DriveInit => AuditFits /\ TrailFits
<1> SUFFICES ASSUME DriveInit PROVE AuditFits /\ TrailFits
  OBVIOUS
<1> DEFINE e == Event("imported", "none", "imported")
<1>1. /\ \A r \in Requests : pc[r] = "idle"
      /\ trail = [s \in Students |-> IF s \in Listed THEN <<e>> ELSE <<>>]
      /\ past = [s \in Students |-> IF s \in Listed THEN <<"imported">> ELSE <<>>]
      /\ \A s \in Students : s \in Listed <=> status[s] # "none"
  BY DEF DriveInit
<1>2. e \in DriveEvent /\ e.to = "imported" /\ e.from = "none" /\ "imported" \in Standings
  BY DEF Event, DriveEvent, RowOps, Standings
<1> HIDE DEF e
<1>3. /\ <<e>> = Append(<<>>, e) /\ <<>> \in Seq(DriveEvent) /\ <<e>> \in Seq(DriveEvent)
      /\ <<"imported">> = Append(<<>>, "imported") /\ <<>> \in Seq(Standings)
  BY <1>2
<1>4. Records(<<e>>, <<"imported">>)
  <2>1. LastOf(<<>>) = "none"
    BY DEF LastOf
  <2> QED BY <1>2, <1>3, <2>1, RecordsNothing, RecordsGrow
<1>5. trail \in [Students -> Seq(DriveEvent)] /\ EventsFit
  BY <1>1, <1>3 DEF EventsFit
<1>6. IsFiniteSet(BusyRequests)
  <2>1. BusyRequests = {}
    BY <1>1 DEF BusyRequests
  <2> QED BY <2>1, FS_EmptySet
<1>7. ASSUME NEW s \in Students, NEW to \in Standings \ {"none", "imported"} PROVE Covered(s, to)
  <2>1. TimesTaken(<<>>, to) = 0
    <3>1. {i \in DOMAIN <<>> : <<>>[i] = to} = {}
      OBVIOUS
    <3> QED BY <3>1, FS_EmptySet DEF TimesTaken
  <2>2. TimesTaken(<<"imported">>, to) = 0
    <3>1. TimesTaken(Append(<<>>, "imported"), to) = TimesTaken(<<>>, to) + IF "imported" = to THEN 1 ELSE 0
      BY <1>2, <1>3, TakenAppended
    <3> QED BY <1>3, <2>1, <3>1
  <2>3. TimesTaken(past[s], to) = 0
    BY <1>1, <2>1, <2>2
  <2>4. Owing(s, to) = {}
    BY <1>1 DEF Owing
  <2>5. TimesAudited(trail[s], to) \in Nat
    BY <1>2, <1>5, AuditedAppended
  <2> QED BY <2>3, <2>4, <2>5, FS_EmptySet DEF Covered
<1>8. TrailFits
  <2>1. \A s \in Students : Records(trail[s], past[s])
    BY <1>1, <1>4, RecordsNothing
  <2>2. \A s \in Students : status[s] = "none" => past[s] = <<>>
    BY <1>1
  <2>3. \A r \in Requests : ~Logging(r) /\ AsRead(r)
    BY <1>1 DEF Logging, AsRead
  <2> QED BY <2>1, <2>2, <2>3 DEF TrailFits
<1> QED BY <1>5, <1>6, <1>7, <1>8 DEF AuditFits

\* The audit trail can be relied on: whatever overlaps, no move from the
\* invitation on goes unrecorded unless the server dies before the INSERT; and
\* as long as requests come one at a time, the trail is the row's history
\* (logEvents after the conditional UPDATEs of drive-students.service.ts).
THEOREM AuditTrailIsTrue == DriveSpec => []TrailIsTrue
<1>1. DriveInit => AuditIInv
  BY DriveInit_TellIInv, DriveInit_Audit DEF AuditIInv
<1>2. AuditIInv /\ [DriveNext]_driveStudentVars => AuditIInv'
  <2> SUFFICES ASSUME AuditIInv, [DriveNext]_driveStudentVars PROVE AuditIInv'
    OBVIOUS
  <2>1. TellIInv /\ DriveIInv /\ AuditFits /\ TrailFits
    BY DEF AuditIInv, TellIInv
  <2> QED BY <2>1, TellStep, AuditStep, TrailStep DEF AuditIInv
<1>3. AuditIInv => TrailIsTrue
  <2> SUFFICES ASSUME AuditIInv, ~Busy PROVE TrailIsTrue
    BY DEF TrailIsTrue, EveryMoveIsAudited, AuditIsHistory
  <2>1. \A r \in Requests : pc[r] = "idle"
    BY DEF Busy
  <2>2. AuditIsHistory
    BY <2>1 DEF AuditIsHistory, AuditIInv, TrailFits, Logging
  <2>3. EveryMoveIsAudited
    <3> SUFFICES ASSUME "crash" \notin noise, NEW s \in Students, NEW to \in Standings \ {"none", "imported"}
                 PROVE  TimesTaken(past[s], to) <= TimesAudited(trail[s], to)
      BY DEF EveryMoveIsAudited
    <3>1. Covered(s, to) /\ trail[s] \in Seq(DriveEvent)
      BY DEF AuditIInv, AuditFits
    <3>2. Owing(s, to) = {}
      BY <2>1 DEF Owing
    <3>3. TimesAudited(trail[s], to) \in Nat
      <4>1. Event("denied", "none", "none") \in DriveEvent
        BY DEF Event, DriveEvent, RowOps, Standings
      <4> QED BY <3>1, <4>1, AuditedAppended
    <3> QED BY <3>1, <3>2, <3>3, FS_EmptySet DEF Covered
  <2> QED BY <2>2, <2>3 DEF TrailIsTrue
<1> QED BY <1>1, <1>2, <1>3, PTL DEF DriveSpec
=============================================================================
