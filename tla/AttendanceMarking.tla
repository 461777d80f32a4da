------------------------- MODULE AttendanceMarking -------------------------
(***************************************************************************)
(* Class sessions, attendance marks and the per-subject rollup             *)
(* (admin/sessions/attendance-marking.service.ts, class-sessions.service.ts*)
(* and student/leaves/leave-attendance-sync.service.ts).                   *)
(*                                                                         *)
(* Every handler is one READ COMMITTED transaction that loads its session  *)
(* without a lock and hands the entity to TypeORM's save, which reads the  *)
(* row again (Reload) and updates the columns that differ (Flush).  Rows a *)
(* transaction has written stay locked and invisible until it commits.     *)
(*                                                                         *)
(* A session's date and period are its slot and a leave is the set of slots*)
(* it covers; `present' stands for `late' too, and `leave' and `absent'    *)
(* are the marks a leave decision may exchange.  The semester is ongoing.  *)
(***************************************************************************)
EXTENDS Integers, FiniteSets

CONSTANTS Sessions, Students, Slots, Subjects, Teachers, Handlers,
          Leaves,
          StudentOf,   \* the student a leave belongs to
          RangeOf,     \* the slots it covers
          MayOverlap   \* {"session", "rollup", "leave"} as the code runs: what may
                       \* be in flight together (Overlaps)

ASSUME LeaveAssumption ==
  /\ StudentOf \in [Leaves -> Students]
  /\ RangeOf \in [Leaves -> SUBSET Slots]
  /\ MayOverlap \subseteq {"session", "rollup", "leave"}

ASSUME SessionAssumption == IsFiniteSet(Sessions)

VARIABLES sessions,  \* class_sessions
          marks,     \* class_session_attendance
          rollup,    \* student_subject_attendance
          leaves,    \* student_leaves, as far as attendance asks
          pc, job,   \* the transaction each handler is in
          overlapped \* history: what has been in flight together (Overlaps)

attendanceVars == <<sessions, marks, rollup, leaves, pc, job, overlapped>>
tables == <<sessions, marks, rollup, leaves>>

Submitted == {"present", "absent", "leave"}
NoRow == "none"

Session == [status : {"scheduled", "completed", "cancelled"}, subject : Subjects,
            slot : Slots, teacher : Teachers]

Columns == {"status", "subject", "slot", "teacher"}

Counts == [held : 0 .. Cardinality(Sessions), attended : 0 .. Cardinality(Sessions)]

PartialFunctions(S, T) == UNION {[R -> T] : R \in SUBSET S}

NoJob == [op |-> "none"]

SessionJobs == [op : {"mark", "amend", "cancel", "uncancel", "edit", "move", "substitute"},
                session : Sessions, entity : Session, dirty : SUBSET Columns,
                known : SUBSET Students, target : PartialFunctions(Students, Submitted),
                written : SUBSET Students, tally : PartialFunctions(Students, Counts)]

LeaveJobs == [op : {"approve", "revoke"}, leave : Leaves, found : SUBSET Sessions]

AttendanceTypeOK ==
  /\ sessions \in [Sessions -> Session]
  /\ marks \in [Sessions -> [Students -> Submitted \cup {NoRow}]]
  /\ rollup \in [Students -> [Subjects -> Counts]]
  /\ leaves \in [Leaves -> {"pending", "effective", "over"}]
  /\ pc \in [Handlers -> {"idle", "leaves", "reloadRows", "flushRows", "reloadSession",
                          "flushSession", "tally", "commit", "flip"}]
  /\ \A h \in Handlers :
       IF job[h] = NoJob THEN pc[h] = "idle"
       ELSE job[h] \in IF pc[h] = "flip" THEN LeaveJobs ELSE SessionJobs
  /\ overlapped \subseteq {"session", "rollup", "leave"}

AttendanceInit ==
  /\ sessions \in [Sessions -> {s \in Session : s.status = "scheduled"}]
  /\ marks = [s \in Sessions |-> [st \in Students |-> NoRow]]
  /\ rollup = [st \in Students |-> [b \in Subjects |-> [held |-> 0, attended |-> 0]]]
  /\ leaves = [l \in Leaves |-> "pending"]
  /\ pc = [h \in Handlers |-> "idle"]
  /\ job = [h \in Handlers |-> NoJob]
  /\ overlapped = {}

-----------------------------------------------------------------------------
At(h, label) == pc[h] = label
Goto(h, label) == pc' = [pc EXCEPT ![h] = label]
Set(h, j) == job' = [job EXCEPT ![h] = j]
Finish(h) == Goto(h, "idle") /\ Set(h, NoJob)

OnSession(g) == pc[g] \notin {"idle", "flip"}
Marking(g) == OnSession(g) /\ job[g].op \in {"mark", "amend"}

\* What is in flight together: two handlers on one session, two markings of
\* different sessions, a marking and a leave decision.
Overlaps ==
  {k \in {"session", "rollup", "leave"} : \E g, h \in Handlers :
     /\ g # h
     /\ \/ /\ k = "session" /\ OnSession(g) /\ OnSession(h)
           /\ job[g].session = job[h].session
        \/ /\ k = "rollup" /\ Marking(g) /\ Marking(h)
           /\ job[g].session # job[h].session
        \/ k = "leave" /\ Marking(g) /\ At(h, "flip")}

\* The attendance rows and the session row a transaction has written.
LocksRow(g, s, st) == /\ pc[g] \in {"reloadSession", "flushSession", "tally", "commit"}
                      /\ Marking(g) /\ job[g].session = s /\ st \in DOMAIN job[g].target

LocksSession(g, s) == /\ pc[g] \in {"tally", "commit"}
                      /\ job[g].op = "mark" /\ job[g].session = s

-----------------------------------------------------------------------------
(* ClassSessionsService.mutate: load the row, check it, change the entity *)

Load(h, s, op, entity, label) ==
  /\ At(h, "idle")
  /\ Set(h, [op |-> op, session |-> s, entity |-> entity, dirty |-> {}, known |-> {},
             target |-> <<>>, written |-> {}, tally |-> <<>>])
  /\ Goto(h, label)
  /\ UNCHANGED tables

\* Mutant: attendance that was taken does not stand in the way.
CancelAnyway(h, s) ==
  /\ sessions[s].status # "cancelled"
  /\ Load(h, s, "cancel", [sessions[s] EXCEPT !.status = "cancelled"], "reloadSession")

\* Cancelling twice is a no-op; a completed session is refused.
Cancel(h, s) ==
  /\ sessions[s].status = "scheduled"
  /\ Load(h, s, "cancel", [sessions[s] EXCEPT !.status = "cancelled"], "reloadSession")

\* Refused once the date has passed, which can be at any time.
Uncancel(h, s) ==
  /\ sessions[s].status = "cancelled"
  /\ Load(h, s, "uncancel", [sessions[s] EXCEPT !.status = "scheduled"], "reloadSession")

EditSession(h, s, subject, teacher) ==
  /\ sessions[s].status = "scheduled"
  /\ Load(h, s, "edit", [sessions[s] EXCEPT !.subject = subject, !.teacher = teacher],
          "reloadSession")

\* Nothing on holidays; allow_conflict admits an occupied slot.
Move(h, s, slot) ==
  /\ sessions[s].status = "scheduled"
  /\ Load(h, s, "move", [sessions[s] EXCEPT !.slot = slot], "reloadSession")

\* Of a completed session too, unless the teacher has another class in the slot.
Substitute(h, s, teacher) ==
  /\ sessions[s].status # "cancelled" /\ sessions[s].teacher # teacher
  /\ \A r \in Sessions : /\ sessions[r].teacher = teacher
                         /\ sessions[r].slot = sessions[s].slot
                         => sessions[r].status = "cancelled"
  /\ Load(h, s, "substitute", [sessions[s] EXCEPT !.teacher = teacher], "reloadSession")

-----------------------------------------------------------------------------
(* AttendanceMarkingService.mark *)

\* A completed session is amended (allow_amend), a cancelled one refused.
StartMark(h, s) ==
  /\ sessions[s].status # "cancelled"
  /\ Load(h, s, IF sessions[s].status = "completed" THEN "amend" ELSE "mark",
          [sessions[s] EXCEPT !.status = "completed"], "leaves")

Covers(l, s) == sessions[s].status # "cancelled" /\ sessions[s].slot \in RangeOf[l]

OnLeave(s) == {StudentOf[l] : l \in {k \in Leaves : leaves[k] = "effective" /\ Covers(k, s)}}

\* Mutant: an absence the teacher submits is kept for a student on leave.
NormaliseDefaultsOnly(onLeave, submitted) ==
  IF onLeave THEN IF submitted = NoRow THEN "leave" ELSE submitted
             ELSE IF submitted \in {NoRow, "leave"} THEN "absent" ELSE submitted

\* The approved leave decides between absent and leave, whatever was submitted.
Normalise(onLeave, submitted) ==
  IF submitted \notin {NoRow, "absent", "leave"} THEN submitted
  ELSE IF onLeave THEN "leave" ELSE "absent"

\* The first marking writes the whole roster, an amendment what was submitted.
\* (Roster and entries are chosen here: nothing before depends on them.)
ReadLeaves(h) ==
  LET s == job[h].session IN
  /\ At(h, "leaves")
  /\ \E roster \in SUBSET Students : \E entries \in PartialFunctions(roster, Submitted) :
       LET Of(st) == IF st \in DOMAIN entries THEN entries[st] ELSE NoRow
           upserts == IF job[h].op = "mark" THEN roster ELSE DOMAIN entries
       IN Set(h, [job[h] EXCEPT
                    !.known = {st \in Students : marks[s][st] # NoRow},
                    !.target = [st \in upserts |-> Normalise(st \in OnLeave(s), Of(st))]])
  /\ Goto(h, "reloadRows")
  /\ UNCHANGED tables

\* save: the rows that exist are read again and compared, the others inserted.
ReloadRows(h) ==
  LET j == job[h] IN
  /\ At(h, "reloadRows")
  /\ Set(h, [j EXCEPT !.written = {st \in DOMAIN j.target :
                         st \in j.known => j.target[st] # marks[j.session][st]}])
  /\ Goto(h, "flushRows")
  /\ UNCHANGED tables

\* Waits for the rows' locks; inserting a row that has appeared violates the
\* unique constraint and is a Fail.
FlushRows(h) ==
  LET j == job[h] IN
  /\ At(h, "flushRows")
  /\ \A st \in DOMAIN j.target : /\ \A g \in Handlers \ {h} : ~LocksRow(g, j.session, st)
                                 /\ st \in j.known \/ marks[j.session][st] = NoRow
  /\ Goto(h, IF j.op = "mark" THEN "reloadSession" ELSE "tally")
  /\ UNCHANGED <<tables, job>>

ReloadSession(h) ==
  LET j == job[h] IN
  /\ At(h, "reloadSession")
  /\ Set(h, [j EXCEPT !.dirty = {c \in DOMAIN j.entity : j.entity[c] # sessions[j.session][c]}])
  /\ Goto(h, "flushSession")
  /\ UNCHANGED tables

Flushed(h) == LET j == job[h] IN
  [c \in DOMAIN j.entity |-> IF c \in j.dirty THEN j.entity[c] ELSE sessions[j.session][c]]

\* The UPDATE waits for the row; every handler but mark then commits.
FlushSession(h) ==
  LET j == job[h] IN
  /\ At(h, "flushSession")
  /\ \A g \in Handlers \ {h} : ~LocksSession(g, j.session)
  /\ IF j.op = "mark" THEN Goto(h, "tally") /\ UNCHANGED <<sessions, job>>
     ELSE sessions' = [sessions EXCEPT ![j.session] = Flushed(h)] /\ Finish(h)
  /\ UNCHANGED <<marks, rollup, leaves>>

\* The tables as the transaction of h sees them: what is committed and its own.
SessionSeen(h, s) == IF s = job[h].session /\ job[h].op = "mark" THEN Flushed(h) ELSE sessions[s]
MarkSeen(h, s, st) == IF s = job[h].session /\ st \in job[h].written THEN job[h].target[st]
                                                                    ELSE marks[s][st]

\* Mutant: the rows are counted before the session is flipped to completed.
TallyBeforeFlip(h) ==
  LET j == job[h]
      Held(st) == {s \in Sessions : /\ sessions[s].status = "completed"
                                    /\ sessions[s].subject = j.entity.subject
                                    /\ MarkSeen(h, s, st) # NoRow}
  IN /\ At(h, "tally")
     /\ Set(h, [j EXCEPT !.tally = [st \in DOMAIN j.target |->
          [held |-> Cardinality(Held(st)),
           attended |-> Cardinality({s \in Held(st) : MarkSeen(h, s, st) = "present"})]]])
     /\ Goto(h, "commit")
     /\ UNCHANGED tables

\* recomputeRollup: rows on completed sessions of the subject, by student.
Tally(h) ==
  LET j == job[h]
      Held(st) == {s \in Sessions : /\ SessionSeen(h, s).status = "completed"
                                    /\ SessionSeen(h, s).subject = j.entity.subject
                                    /\ MarkSeen(h, s, st) # NoRow}
  IN /\ At(h, "tally")
     /\ Set(h, [j EXCEPT !.tally = [st \in DOMAIN j.target |->
          [held |-> Cardinality(Held(st)),
           attended |-> Cardinality({s \in Held(st) : MarkSeen(h, s, st) = "present"})]]])
     /\ Goto(h, "commit")
     /\ UNCHANGED tables

\* A student without rows is in no group of the query and keeps the old counts.
CommitMark(h) ==
  LET j == job[h] IN
  /\ At(h, "commit")
  /\ marks' = [marks EXCEPT ![j.session] = [st \in Students |-> MarkSeen(h, j.session, st)]]
  /\ sessions' = [sessions EXCEPT ![j.session] = SessionSeen(h, j.session)]
  /\ rollup' = [st \in Students |->
       IF st \in DOMAIN j.tally /\ j.tally[st].held > 0
         THEN [rollup[st] EXCEPT ![j.entity.subject] = j.tally[st]] ELSE rollup[st]]
  /\ Finish(h)
  /\ UNCHANGED leaves

-----------------------------------------------------------------------------
(* Leave decisions: applyDecision of both leave handlers, and flip *)

From(op) == IF op = "approve" THEN "absent" ELSE "leave"
To(op) == IF op = "approve" THEN "leave" ELSE "absent"

\* The UPDATE's snapshot: marks in range on completed sessions.  The leave row is
\* locked, and effective leaves of a student do not overlap (StudentLeaves).
StartDecision(h, l, op) ==
  /\ At(h, "idle")
  /\ \A g \in Handlers : At(g, "flip") => StudentOf[job[g].leave] # StudentOf[l]
  /\ \/ /\ op = "approve" /\ leaves[l] = "pending"
        /\ \A k \in Leaves : leaves[k] = "effective" /\ StudentOf[k] = StudentOf[l]
                               => RangeOf[k] \cap RangeOf[l] = {}
     \/ op = "revoke" /\ leaves[l] = "effective"
  /\ Set(h, [op |-> op, leave |-> l,
             found |-> {s \in Sessions : /\ sessions[s].status = "completed" /\ Covers(l, s)
                                         /\ marks[s][StudentOf[l]] = From(op)}])
  /\ Goto(h, "flip")
  /\ UNCHANGED tables

\* Mutant: a row found before another transaction rewrote it is flipped blindly.
FlipWhatWasFound(h) ==
  LET j == job[h] st == StudentOf[job[h].leave] IN
  /\ At(h, "flip")
  /\ \A s \in j.found, g \in Handlers \ {h} : ~LocksRow(g, s, st)
  /\ marks' = [s \in Sessions |-> IF s \in j.found THEN [marks[s] EXCEPT ![st] = To(j.op)]
                                                    ELSE marks[s]]
  /\ leaves' = [leaves EXCEPT ![j.leave] = IF j.op = "approve" THEN "effective" ELSE "over"]
  /\ Finish(h)
  /\ UNCHANGED <<sessions, rollup>>

\* The UPDATE waits for locked rows and checks them again; then the commit.
CommitDecision(h) ==
  LET j == job[h] st == StudentOf[job[h].leave] IN
  /\ At(h, "flip")
  /\ \A s \in j.found, g \in Handlers \ {h} : ~LocksRow(g, s, st)
  /\ marks' = [s \in Sessions |->
                 IF s \in j.found /\ marks[s][st] = From(j.op)
                   THEN [marks[s] EXCEPT ![st] = To(j.op)] ELSE marks[s]]
  /\ leaves' = [leaves EXCEPT ![j.leave] = IF j.op = "approve" THEN "effective" ELSE "over"]
  /\ Finish(h)
  /\ UNCHANGED <<sessions, rollup>>

\* An exception or a lost connection at any point rolls the transaction back.
Fail(h) == ~At(h, "idle") /\ Finish(h) /\ UNCHANGED tables

-----------------------------------------------------------------------------
Step(h) ==
  \/ \E s \in Sessions :
       \/ Cancel(h, s) \/ Uncancel(h, s) \/ StartMark(h, s)
       \/ \E b \in Subjects, t \in Teachers : EditSession(h, s, b, t)
       \/ \E slot \in Slots : Move(h, s, slot)
       \/ \E t \in Teachers : Substitute(h, s, t)
  \/ ReadLeaves(h) \/ ReloadRows(h) \/ FlushRows(h) \/ ReloadSession(h) \/ FlushSession(h)
  \/ Tally(h) \/ CommitMark(h)
  \/ \E l \in Leaves, op \in {"approve", "revoke"} : StartDecision(h, l, op)
  \/ CommitDecision(h) \/ Fail(h)

AttendanceNext == (\E h \in Handlers : Step(h)) /\ Overlaps' \subseteq MayOverlap
                  /\ overlapped' = overlapped \cup Overlaps'

AttendanceSpec == AttendanceInit /\ [][AttendanceNext]_attendanceVars

-----------------------------------------------------------------------------
(* Properties *)

\* Cancelled and unmarked sessions carry no attendance rows: what counts as held
\* and what leave decisions repair relies on it (LeaveAttendanceSyncService).
RowsOnlyOnHeldSessions ==
  "session" \notin overlapped => \A s \in Sessions, st \in Students :
    marks[s][st] # NoRow => sessions[s].status = "completed"

\* The invariant of the tables: rows and jobs are well formed, no session has
\* marks that a cancellation or a re-opening should have taken with it.
AttendanceInv == AttendanceTypeOK /\ RowsOnlyOnHeldSessions

HeldBy(st, b) == {s \in Sessions : /\ sessions[s].status = "completed"
                                   /\ sessions[s].subject = b /\ marks[s][st] # NoRow}

\* The rollup is the projection of the attendance rows, also after a session was
\* amended, moved or re-opened and while leave decisions rewrite marks
\* (StudentSubjectAttendance).
RollupIsProjection ==
  overlapped \subseteq {"leave"} => \A st \in Students, b \in Subjects :
    rollup[st][b] = [held |-> Cardinality(HeldBy(st, b)),
                     attended |-> Cardinality({s \in HeldBy(st, b) : marks[s][st] = "present"})]

\* On a held session a student is recorded absent only outside an effective
\* leave, and on leave only inside one (mark and flip), as long as no decision
\* falls between a marking's read of the leaves and its commit.
AbsencesMatchLeaves ==
  overlapped \cap {"session", "leave"} = {} => \A s \in Sessions, st \in Students :
    /\ marks[s][st] = "absent" => st \notin OnLeave(s)
    /\ marks[s][st] = "leave" => st \in OnLeave(s)

\* Only a teacher takes a student's presence back: a leave decision that found
\* the student absent does not rewrite the mark amended meanwhile (flip).
PresenceIsTheTeachers ==
  [][\A s \in Sessions, st \in Students :
       marks[s][st] = "present" /\ marks'[s][st] # "present" =>
         \E h \in Handlers : Marking(h) /\ job[h].session = s /\ pc'[h] = "idle"]_attendanceVars
=============================================================================
