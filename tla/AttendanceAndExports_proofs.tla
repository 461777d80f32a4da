--------------------- MODULE AttendanceAndExports_proofs ---------------------
(***************************************************************************)
(* Theorems about attendance, for every finite set of sessions and any     *)
(* number of students, leaves and transactions at a time, and about the    *)
(* file exports, for every number of jobs and of concurrent create         *)
(* requests and every limit.                                               *)
(***************************************************************************)
EXTENDS AttendanceMarking, ExportJobs, FiniteSetTheorems, TLAPS

-----------------------------------------------------------------------------
(* Attendance *)

Labels == {"idle", "leaves", "reloadRows", "flushRows", "reloadSession", "flushSession",
           "tally", "commit", "flip"}

\* Which transactions stand at which statement.
FitsAt(label, j) ==
  /\ label \in Labels
  /\ label = "idle" => j = NoJob
  /\ label = "flip" => j \in LeaveJobs
  /\ label \notin {"idle", "flip"} => j \in SessionJobs /\ j.written \subseteq DOMAIN j.target
  /\ label \in {"leaves", "reloadRows", "flushRows", "tally", "commit"} => j.op \in {"mark", "amend"}
  /\ label \in {"reloadSession", "flushSession"} => j.op # "amend"
  /\ label = "leaves" => j.written = {}
  /\ label = "commit" => DOMAIN j.tally = DOMAIN j.target

JobsFit == /\ pc \in [Handlers -> Labels] /\ job = [h \in Handlers |-> job[h]]
           /\ \A h \in Handlers : FitsAt(pc[h], job[h])

TablesFit ==
  /\ sessions \in [Sessions -> Session]
  /\ marks \in [Sessions -> [Students -> Submitted \cup {NoRow}]]
  /\ rollup \in [Students -> [Subjects -> Counts]]
  /\ leaves \in [Leaves -> {"pending", "effective", "over"}]

\* What has been in flight together is remembered.
OverlapFits == /\ Overlaps \subseteq overlapped
               /\ overlapped \subseteq {"session", "rollup", "leave"}

TypesFit == TablesFit /\ JobsFit /\ OverlapFits

-----------------------------------------------------------------------------
(* Types *)

Goes(h, label, j) == /\ pc' = [pc EXCEPT ![h] = label] /\ job' = [job EXCEPT ![h] = j]
                     /\ FitsAt(label, j)

LEMMA OneJob ==
  ASSUME JobsFit, NEW h \in Handlers, NEW STATE j, NEW STATE label, Goes(h, label, j)
  PROVE  JobsFit'
<1>1. label \in Labels
  BY DEF FitsAt, Goes
<1>2. pc' \in [Handlers -> Labels]
  BY <1>1 DEF JobsFit, Goes
<1>3. job' = [g \in Handlers |-> job'[g]]
  BY DEF JobsFit, Goes
<1>4. ASSUME NEW g \in Handlers PROVE FitsAt(pc'[g], job'[g])
  BY DEF JobsFit, Goes
<1> QED BY <1>2, <1>3, <1>4 DEF JobsFit

LEMMA NothingYet == <<>> \in PartialFunctions(Students, Submitted)
                    /\ <<>> \in PartialFunctions(Students, Counts) /\ DOMAIN <<>> = {}
<1>1. <<>> = [st \in {} |-> st]
  OBVIOUS
<1>2. ASSUME NEW T PROVE <<>> \in PartialFunctions(Students, T)
  <2>1. <<>> \in [{} -> T] /\ {} \in SUBSET Students
    BY <1>1
  <2> QED BY <2>1 DEF PartialFunctions
<1> QED BY <1>1, <1>2

\* Loading a session.
LEMMA LoadFits ==
  ASSUME TablesFit, JobsFit, NEW h \in Handlers, NEW s \in Sessions, NEW entity \in Session, NEW op, NEW label,
         op \in {"mark", "amend", "cancel", "uncancel", "edit", "move", "substitute"},
         label = (IF op \in {"mark", "amend"} THEN "leaves" ELSE "reloadSession"),
         Load(h, s, op, entity, label)
  PROVE  JobsFit' /\ TablesFit'
<1> DEFINE j == [op |-> op, session |-> s, entity |-> entity, dirty |-> {}, known |-> {},
                 target |-> <<>>, written |-> {}, tally |-> <<>>]
<1>1. j \in SessionJobs /\ j.written \subseteq DOMAIN j.target
  BY NothingYet DEF SessionJobs
<1>2. FitsAt(label, j)
  BY <1>1 DEF FitsAt, Labels
<1>3. Goes(h, label, j)
  BY <1>2 DEF Goes, Load, Goto, Set
<1>4. JobsFit'
  BY <1>3, OneJob
<1> QED BY <1>4 DEF Load, tables, TablesFit

LEMMA StartsFit ==
  ASSUME TablesFit, JobsFit, NEW h \in Handlers, NEW s \in Sessions,
         \/ Cancel(h, s) \/ Uncancel(h, s) \/ StartMark(h, s)
         \/ \E b \in Subjects, t \in Teachers : EditSession(h, s, b, t)
         \/ \E slot \in Slots : Move(h, s, slot)
         \/ \E t \in Teachers : Substitute(h, s, t)
  PROVE  JobsFit' /\ TablesFit'
<1>1. sessions[s] \in Session
  BY DEF TablesFit
<1>2. CASE Cancel(h, s)
  <2>1. [sessions[s] EXCEPT !.status = "cancelled"] \in Session
    BY <1>1 DEF Session
  <2> QED BY <1>2, <2>1, LoadFits DEF Cancel
<1>3. CASE Uncancel(h, s)
  <2>1. [sessions[s] EXCEPT !.status = "scheduled"] \in Session
    BY <1>1 DEF Session
  <2> QED BY <1>3, <2>1, LoadFits DEF Uncancel
<1>4. CASE StartMark(h, s)
  <2>1. [sessions[s] EXCEPT !.status = "completed"] \in Session
    BY <1>1 DEF Session
  <2> QED BY <1>4, <2>1, LoadFits DEF StartMark
<1>5. ASSUME NEW b \in Subjects, NEW t \in Teachers, EditSession(h, s, b, t) PROVE JobsFit' /\ TablesFit'
  <2>1. [sessions[s] EXCEPT !.subject = b, !.teacher = t] \in Session
    BY <1>1 DEF Session
  <2> DEFINE entity == [sessions[s] EXCEPT !.subject = b, !.teacher = t]
  <2>2. Load(h, s, "edit", entity, "reloadSession")
    BY <1>5 DEF EditSession
  <2>3. entity \in Session
    BY <2>1
  <2> HIDE DEF entity
  <2> QED BY <2>2, <2>3, LoadFits
<1>6. ASSUME NEW slot \in Slots, Move(h, s, slot) PROVE JobsFit' /\ TablesFit'
  <2>1. [sessions[s] EXCEPT !.slot = slot] \in Session
    BY <1>1 DEF Session
  <2> QED BY <1>6, <2>1, LoadFits DEF Move
<1>7. ASSUME NEW t \in Teachers, Substitute(h, s, t) PROVE JobsFit' /\ TablesFit'
  <2>1. [sessions[s] EXCEPT !.teacher = t] \in Session
    BY <1>1 DEF Session
  <2> QED BY <1>7, <2>1, LoadFits DEF Substitute
<1> QED BY <1>2, <1>3, <1>4, <1>5, <1>6, <1>7

\* The set in a tally is at most all sessions.
LEMMA CountsFit ==
  ASSUME NEW R \in SUBSET Sessions, NEW P \in SUBSET R
  PROVE  /\ [held |-> Cardinality(R), attended |-> Cardinality(P)] \in Counts
         /\ IsFiniteSet(R) /\ IsFiniteSet(P)
<1>1. IsFiniteSet(R) /\ Cardinality(R) <= Cardinality(Sessions)
  BY SessionAssumption, FS_Subset
<1>2. P \in SUBSET Sessions
  OBVIOUS
<1>3. IsFiniteSet(P) /\ Cardinality(P) <= Cardinality(Sessions)
  BY <1>2, SessionAssumption, FS_Subset
<1>4. Cardinality(R) \in Nat /\ Cardinality(P) \in Nat /\ Cardinality(Sessions) \in Nat
  BY <1>1, <1>3, SessionAssumption, FS_CardinalityType
<1> QED BY <1>1, <1>3, <1>4 DEF Counts

\* What a marking writes of a student tells whether the leaves it read cover the
\* session (Normalise).
MatchesLeaves(s, target) ==
  \A st \in DOMAIN target : /\ target[st] = "absent" => st \notin OnLeave(s)
                            /\ target[st] = "leave" => st \in OnLeave(s)

LEMMA NormaliseFits ==
  ASSUME NEW onLeave, NEW submitted \in Submitted \cup {NoRow}
  PROVE  LET t == Normalise(onLeave, submitted) IN
         /\ t \in Submitted
         /\ t = "absent" => ~onLeave
         /\ t = "leave" => onLeave
  BY DEF Normalise, Submitted, NoRow

LEMMA ReadLeavesEffect ==
  ASSUME NEW h \in Handlers, ReadLeaves(h)
  PROVE  \E target \in PartialFunctions(Students, Submitted) :
           /\ MatchesLeaves(job[h].session, target)
           /\ job' = [job EXCEPT ![h] = [job[h] EXCEPT
                        !.known = {st \in Students : marks[job[h].session][st] # NoRow},
                        !.target = target]]
<1> DEFINE s == job[h].session
           Of(entries, st) == IF st \in DOMAIN entries THEN entries[st] ELSE NoRow
           Upserts(roster, entries) == IF job[h].op = "mark" THEN roster ELSE DOMAIN entries
           Target(roster, entries) == [st \in Upserts(roster, entries) |->
                                         Normalise(st \in OnLeave(s), Of(entries, st))]
<1>1. PICK roster \in SUBSET Students : \E entries \in PartialFunctions(roster, Submitted) :
        job' = [job EXCEPT ![h] = [job[h] EXCEPT
                  !.known = {st \in Students : marks[s][st] # NoRow},
                  !.target = Target(roster, entries)]]
  BY DEF ReadLeaves, Set
<1>2. PICK entries \in PartialFunctions(roster, Submitted) :
        job' = [job EXCEPT ![h] = [job[h] EXCEPT
                  !.known = {st \in Students : marks[s][st] # NoRow},
                  !.target = Target(roster, entries)]]
  BY <1>1
<1>3. PICK R \in SUBSET roster : entries \in [R -> Submitted]
  BY <1>2 DEF PartialFunctions
<1>4. Upserts(roster, entries) \in SUBSET Students
  BY <1>3
<1>5. ASSUME NEW st PROVE Of(entries, st) \in Submitted \cup {NoRow}
  BY <1>3
<1>6. ASSUME NEW st \in Upserts(roster, entries)
      PROVE  LET t == Normalise(st \in OnLeave(s), Of(entries, st)) IN
             /\ t \in Submitted
             /\ t = "absent" => st \notin OnLeave(s)
             /\ t = "leave" => st \in OnLeave(s)
  <2>1. Of(entries, st) \in Submitted \cup {NoRow}
    BY <1>5
  <2> HIDE DEF Of, s
  <2> QED BY <2>1, NormaliseFits
<1>7. Target(roster, entries) \in [Upserts(roster, entries) -> Submitted]
  BY <1>6
<1>8. Target(roster, entries) \in PartialFunctions(Students, Submitted)
  <2> HIDE DEF Target, Upserts
  <2> QED BY <1>4, <1>7 DEF PartialFunctions
<1>9. MatchesLeaves(s, Target(roster, entries))
  <2>1. ASSUME NEW st \in Upserts(roster, entries)
        PROVE  Target(roster, entries)[st] = Normalise(st \in OnLeave(s), Of(entries, st))
    OBVIOUS
  <2> HIDE DEF s, Of
  <2> QED BY <1>6, <2>1 DEF MatchesLeaves
<1> HIDE DEF Target
<1> QED BY <1>2, <1>8, <1>9

LEMMA MarkingFits ==
  ASSUME TablesFit, JobsFit, NEW h \in Handlers,
         ReadLeaves(h) \/ ReloadRows(h) \/ FlushRows(h) \/ ReloadSession(h) \/ Tally(h)
  PROVE  JobsFit' /\ TablesFit'
<1> DEFINE j == job[h]
<1>1. FitsAt(pc[h], j)
  BY DEF JobsFit
<1>2. CASE ReadLeaves(h)
  <2>1. PICK target \in PartialFunctions(Students, Submitted) :
          job' = [job EXCEPT ![h] = [j EXCEPT
                    !.known = {st \in Students : marks[job[h].session][st] # NoRow}, !.target = target]]
    BY <1>2, ReadLeavesEffect
  <2> DEFINE known == {st \in Students : marks[job[h].session][st] # NoRow}
             k == [j EXCEPT !.known = known, !.target = target]
  <2>2. known \in SUBSET Students
    OBVIOUS
  <2>3. pc[h] = "leaves" /\ pc' = [pc EXCEPT ![h] = "reloadRows"]
    BY <1>2 DEF ReadLeaves, At, Goto
  <2>4. k \in SessionJobs /\ k.written = {} /\ k.op = j.op /\ j.op \in {"mark", "amend"}
    <3> HIDE DEF known, j
    <3> QED BY <1>1, <2>2, <2>3 DEF FitsAt, SessionJobs
  <2>5. FitsAt("reloadRows", k)
    <3> HIDE DEF k
    <3> QED BY <2>4 DEF FitsAt, Labels
  <2>6. Goes(h, "reloadRows", k)
    BY <2>1, <2>3, <2>5 DEF Goes
  <2>7. JobsFit'
    BY <2>6, OneJob
  <2> QED BY <2>7, <1>2 DEF ReadLeaves, tables, TablesFit
<1>3. CASE ReloadRows(h)
  <2> DEFINE written == {st \in DOMAIN j.target :
                         st \in j.known => j.target[st] # marks[j.session][st]}
             k == [j EXCEPT !.written = written]
  <2>1. pc[h] = "reloadRows" /\ pc' = [pc EXCEPT ![h] = "flushRows"] /\ job' = [job EXCEPT ![h] = k]
    BY <1>3 DEF ReloadRows, At, Goto, Set
  <2>2. j.target \in PartialFunctions(Students, Submitted)
    BY <1>1, <2>1 DEF FitsAt, SessionJobs
  <2>3. written \in SUBSET DOMAIN j.target /\ written \in SUBSET Students
    BY <2>2 DEF PartialFunctions
  <2>4. k \in SessionJobs /\ k.written = written /\ k.target = j.target /\ k.op = j.op
        /\ j.op \in {"mark", "amend"}
    <3> HIDE DEF written, j
    <3> QED BY <1>1, <2>1, <2>3 DEF FitsAt, SessionJobs
  <2>5. FitsAt("flushRows", k)
    <3> HIDE DEF k, written
    <3> QED BY <2>3, <2>4 DEF FitsAt, Labels
  <2>6. Goes(h, "flushRows", k)
    BY <2>1, <2>5 DEF Goes
  <2>7. JobsFit'
    BY <2>6, OneJob
  <2> QED BY <2>7, <1>3 DEF ReloadRows, tables, TablesFit
<1>4. CASE FlushRows(h)
  <2> DEFINE label == IF j.op = "mark" THEN "reloadSession" ELSE "tally"
  <2>1. pc[h] = "flushRows" /\ pc' = [pc EXCEPT ![h] = label] /\ job' = [job EXCEPT ![h] = j]
    BY <1>4 DEF FlushRows, At, Goto, JobsFit
  <2>2. FitsAt(label, j)
    BY <1>1, <2>1 DEF FitsAt, Labels
  <2>3. Goes(h, label, j)
    BY <2>1, <2>2 DEF Goes
  <2>4. JobsFit'
    BY <2>3, OneJob
  <2> QED BY <2>4, <1>4 DEF FlushRows, tables, TablesFit
<1>5. CASE ReloadSession(h)
  <2> DEFINE dirty == {c \in DOMAIN j.entity : j.entity[c] # sessions[j.session][c]}
             k == [j EXCEPT !.dirty = dirty]
  <2>1. pc[h] = "reloadSession" /\ pc' = [pc EXCEPT ![h] = "flushSession"]
        /\ job' = [job EXCEPT ![h] = k]
    BY <1>5 DEF ReloadSession, At, Goto, Set
  <2>2. j.entity \in Session
    BY <1>1, <2>1 DEF FitsAt, SessionJobs
  <2>3. dirty \in SUBSET Columns
    BY <2>2 DEF Session, Columns
  <2>4. k \in SessionJobs /\ k.written = j.written /\ k.target = j.target /\ k.op = j.op
    <3> HIDE DEF dirty, j
    <3> QED BY <1>1, <2>1, <2>3 DEF FitsAt, SessionJobs
  <2>5. FitsAt("flushSession", k)
    <3> HIDE DEF k
    <3> QED BY <1>1, <2>1, <2>4 DEF FitsAt, Labels
  <2>6. Goes(h, "flushSession", k)
    BY <2>1, <2>5 DEF Goes
  <2>7. JobsFit'
    BY <2>6, OneJob
  <2> QED BY <2>7, <1>5 DEF ReloadSession, tables, TablesFit
<1>6. CASE Tally(h)
  <2> DEFINE Held(st) == {s \in Sessions : /\ SessionSeen(h, s).status = "completed"
                                           /\ SessionSeen(h, s).subject = j.entity.subject
                                           /\ MarkSeen(h, s, st) # NoRow}
             Present(st) == {s \in Held(st) : MarkSeen(h, s, st) = "present"}
             tally == [st \in DOMAIN j.target |->
                        [held |-> Cardinality(Held(st)), attended |-> Cardinality(Present(st))]]
             k == [j EXCEPT !.tally = tally]
  <2>1. pc[h] = "tally" /\ pc' = [pc EXCEPT ![h] = "commit"] /\ job' = [job EXCEPT ![h] = k]
    BY <1>6 DEF Tally, At, Goto, Set
  <2>2. j.target \in PartialFunctions(Students, Submitted)
    BY <1>1, <2>1 DEF FitsAt, SessionJobs
  <2>3. DOMAIN j.target \in SUBSET Students
    BY <2>2 DEF PartialFunctions
  <2>4. ASSUME NEW st PROVE [held |-> Cardinality(Held(st)), attended |-> Cardinality(Present(st))] \in Counts
    BY CountsFit
  <2>5. tally \in [DOMAIN j.target -> Counts]
    <3> HIDE DEF Held, Present
    <3> QED BY <2>4
  <2>6. tally \in PartialFunctions(Students, Counts) /\ DOMAIN tally = DOMAIN j.target
    <3> HIDE DEF tally, j
    <3> QED BY <2>3, <2>5 DEF PartialFunctions
  <2>7. k \in SessionJobs /\ k.written = j.written /\ k.target = j.target /\ k.op = j.op /\ k.tally = tally
    <3> HIDE DEF tally, j
    <3> QED BY <1>1, <2>1, <2>6 DEF FitsAt, SessionJobs
  <2>8. FitsAt("commit", k)
    <3> HIDE DEF k, tally
    <3> QED BY <1>1, <2>1, <2>6, <2>7 DEF FitsAt, Labels
  <2>9. Goes(h, "commit", k)
    BY <2>1, <2>8 DEF Goes
  <2>10. JobsFit'
    <3> HIDE DEF k
    <3> QED BY <2>9, OneJob
  <2> QED BY <2>10, <1>6 DEF Tally, tables, TablesFit
<1> QED BY <1>2, <1>3, <1>4, <1>5, <1>6

LEMMA Finishes == ASSUME JobsFit, NEW h \in Handlers, Finish(h) PROVE JobsFit'
<1>1. Goes(h, "idle", NoJob)
  BY DEF Finish, Goto, Set, Goes, FitsAt, Labels
<1> QED BY <1>1, OneJob

\* What UPDATE leaves in the row is a row.
LEMMA FlushedIsRow ==
  ASSUME TablesFit, NEW h \in Handlers, job[h] \in SessionJobs
  PROVE  Flushed(h) \in Session
<1>1. job[h].entity \in Session /\ sessions[job[h].session] \in Session
  BY DEF SessionJobs, TablesFit
<1> QED BY <1>1 DEF Flushed, Session

LEMMA CommitsFit ==
  ASSUME TablesFit, JobsFit, NEW h \in Handlers, CommitMark(h)
  PROVE  JobsFit' /\ TablesFit'
<1> DEFINE j == job[h]
<1>1. FitsAt("commit", j) /\ pc[h] = "commit"
  BY DEF JobsFit, CommitMark, At
<1>2. /\ j \in SessionJobs /\ j.session \in Sessions /\ j.entity.subject \in Subjects
      /\ j.target \in PartialFunctions(Students, Submitted)
      /\ j.tally \in PartialFunctions(Students, Counts)
      /\ j.written \subseteq DOMAIN j.target
  BY <1>1 DEF FitsAt, SessionJobs, Session
<1>3. JobsFit'
  BY Finishes DEF CommitMark
<1>4. SessionSeen(h, j.session) \in Session
  BY <1>2, FlushedIsRow DEF SessionSeen, TablesFit
<1>5. sessions' \in [Sessions -> Session]
  BY <1>4 DEF CommitMark, TablesFit
<1>6. ASSUME NEW st \in Students PROVE MarkSeen(h, j.session, st) \in Submitted \cup {NoRow}
  <2>1. CASE st \in j.written
    <3>1. PICK R \in SUBSET Students : j.target \in [R -> Submitted]
      BY <1>2 DEF PartialFunctions
    <3> QED BY <1>2, <2>1, <3>1 DEF MarkSeen
  <2>2. CASE st \notin j.written
    BY <1>2, <2>2 DEF MarkSeen, TablesFit
  <2> QED BY <2>1, <2>2
<1>7. marks' \in [Sessions -> [Students -> Submitted \cup {NoRow}]]
  BY <1>2, <1>6 DEF CommitMark, TablesFit
<1>8. rollup' \in [Students -> [Subjects -> Counts]]
  <2>1. PICK R \in SUBSET Students : j.tally \in [R -> Counts]
    BY <1>2 DEF PartialFunctions
  <2>2. ASSUME NEW st \in Students
        PROVE  (IF st \in DOMAIN j.tally /\ j.tally[st].held > 0
                  THEN [rollup[st] EXCEPT ![j.entity.subject] = j.tally[st]] ELSE rollup[st])
                 \in [Subjects -> Counts]
    <3>1. rollup[st] \in [Subjects -> Counts]
      BY DEF TablesFit
    <3>2. st \in DOMAIN j.tally => j.tally[st] \in Counts
      BY <2>1
    <3> HIDE DEF j
    <3> QED BY <3>1, <3>2, <1>2
  <2>3. rollup' = [st \in Students |->
                     IF st \in DOMAIN j.tally /\ j.tally[st].held > 0
                       THEN [rollup[st] EXCEPT ![j.entity.subject] = j.tally[st]] ELSE rollup[st]]
    BY DEF CommitMark
  <2> HIDE DEF j
  <2> QED BY <2>2, <2>3
<1> QED BY <1>3, <1>5, <1>7, <1>8 DEF CommitMark, TablesFit

LEMMA FlushFits ==
  ASSUME TablesFit, JobsFit, NEW h \in Handlers, FlushSession(h)
  PROVE  JobsFit' /\ TablesFit'
<1>1. FitsAt("flushSession", job[h]) /\ pc[h] = "flushSession"
  BY DEF JobsFit, FlushSession, At
<1>2. job[h] \in SessionJobs /\ job[h].session \in Sessions
  BY <1>1 DEF FitsAt, SessionJobs
<1>3. CASE job[h].op = "mark"
  <2>1. FitsAt("tally", job[h])
    BY <1>1, <1>3 DEF FitsAt, Labels
  <2>2. Goes(h, "tally", job[h])
    BY <2>1, <1>3 DEF FlushSession, Goes, Goto, JobsFit
  <2>3. JobsFit'
    BY <2>2, OneJob
  <2> QED BY <2>3, <1>3 DEF FlushSession, TablesFit
<1>4. CASE job[h].op # "mark"
  <2>1. JobsFit'
    BY <1>4, Finishes DEF FlushSession
  <2>2. Flushed(h) \in Session
    BY <1>2, FlushedIsRow
  <2>3. sessions' \in [Sessions -> Session]
    BY <1>2, <1>4, <2>2 DEF FlushSession, TablesFit
  <2> QED BY <2>1, <2>3, <1>4 DEF FlushSession, TablesFit
<1> QED BY <1>3, <1>4

LEMMA DecisionsFit ==
  ASSUME TablesFit, JobsFit, NEW h \in Handlers,
         \/ \E l \in Leaves, op \in {"approve", "revoke"} : StartDecision(h, l, op)
         \/ CommitDecision(h) \/ Fail(h)
  PROVE  JobsFit' /\ TablesFit'
<1>1. ASSUME NEW l \in Leaves, NEW op \in {"approve", "revoke"}, StartDecision(h, l, op)
      PROVE  JobsFit' /\ TablesFit'
  <2> DEFINE found == {s \in Sessions : /\ sessions[s].status = "completed" /\ Covers(l, s)
                                        /\ marks[s][StudentOf[l]] = From(op)}
             j == [op |-> op, leave |-> l, found |-> found]
  <2>1. found \in SUBSET Sessions
    OBVIOUS
  <2>2. j \in LeaveJobs
    <3> HIDE DEF found
    <3> QED BY <2>1 DEF LeaveJobs
  <2>3. FitsAt("flip", j)
    <3> HIDE DEF j
    <3> QED BY <2>2 DEF FitsAt, Labels
  <2>4. Goes(h, "flip", j)
    BY <1>1, <2>3 DEF StartDecision, Goes, Goto, Set
  <2>5. JobsFit'
    <3> HIDE DEF j
    <3> QED BY <2>4, OneJob
  <2> QED BY <1>1, <2>5 DEF StartDecision, tables, TablesFit
<1>2. CASE CommitDecision(h)
  <2>1. job[h] \in LeaveJobs
    BY <1>2 DEF CommitDecision, At, JobsFit, FitsAt
  <2>2. JobsFit'
    BY <1>2, Finishes DEF CommitDecision
  <2>3. leaves' \in [Leaves -> {"pending", "effective", "over"}]
    BY <1>2, <2>1 DEF CommitDecision, TablesFit, LeaveJobs
  <2>4. ASSUME NEW s \in Sessions, NEW st PROVE [marks[s] EXCEPT ![st] = To(job[h].op)] \in [Students -> Submitted \cup {NoRow}]
    <3>1. marks[s] \in [Students -> Submitted \cup {NoRow}] /\ To(job[h].op) \in Submitted
      BY DEF TablesFit, To, Submitted
    <3> QED BY <3>1
  <2>5. marks' \in [Sessions -> [Students -> Submitted \cup {NoRow}]]
    BY <1>2, <2>4 DEF CommitDecision, TablesFit
  <2> QED BY <1>2, <2>2, <2>3, <2>5 DEF CommitDecision, TablesFit
<1>3. CASE Fail(h)
  BY <1>3, Finishes DEF Fail, tables, TablesFit
<1> QED BY <1>1, <1>2, <1>3

LEMMA TypesStep == ASSUME TypesFit, AttendanceNext PROVE TypesFit'
<1>1. PICK h \in Handlers : Step(h)
  BY DEF AttendanceNext
<1>2. JobsFit' /\ TablesFit'
  BY <1>1, StartsFit, MarkingFits, CommitsFit, FlushFits, DecisionsFit DEF Step, TypesFit
<1>3. Overlaps' \subseteq overlapped' /\ overlapped' \subseteq {"session", "rollup", "leave"}
  BY LeaveAssumption DEF AttendanceNext, TypesFit, OverlapFits
<1> QED BY <1>2, <1>3 DEF TypesFit, OverlapFits

-----------------------------------------------------------------------------
(* Overlaps *)

\* What has not been in flight together is not in flight together.
LEMMA Apart ==
  ASSUME OverlapFits, NEW g \in Handlers, NEW h \in Handlers, g # h
  PROVE  /\ "session" \notin overlapped /\ OnSession(g) /\ OnSession(h) => job[g].session # job[h].session
         /\ "rollup" \notin overlapped /\ Marking(g) /\ Marking(h) => job[g].session = job[h].session
         /\ "leave" \notin overlapped => ~(Marking(g) /\ At(h, "flip"))
<1>1. \A k : k \in Overlaps => k \in overlapped
  BY DEF OverlapFits
<1>2. "session" \notin Overlaps /\ OnSession(g) /\ OnSession(h) => job[g].session # job[h].session
  BY DEF Overlaps
<1>3. "rollup" \notin Overlaps /\ Marking(g) /\ Marking(h) => job[g].session = job[h].session
  BY DEF Overlaps
<1>4. "leave" \notin Overlaps => ~(Marking(g) /\ At(h, "flip"))
  BY DEF Overlaps
<1> QED BY <1>1, <1>2, <1>3, <1>4

\* What overlapped is never forgotten.
LEMMA Remembers == ASSUME AttendanceNext PROVE overlapped \subseteq overlapped'
  BY DEF AttendanceNext

\* A transaction alone on its session: the row is as it was loaded, but for what
\* the transaction is about to write.
AsLoaded(h) ==
  LET j == job[h] held == sessions[job[h].session] IN
  /\ j.op \in {"cancel", "edit", "move", "mark"} => held.status = "scheduled"
  /\ j.op = "uncancel" => held.status = "cancelled"
  /\ j.op = "amend" => held.status = "completed"
  /\ j.op = "substitute" => j.entity.status = held.status
  /\ j.op \in {"mark", "amend"} => j.entity.status = "completed"
  /\ j.op \in {"substitute", "mark", "amend"} => /\ j.entity.subject = held.subject
                                                 /\ j.entity.slot = held.slot
  /\ pc[h] \in {"flushSession", "tally", "commit"} /\ j.op # "amend" =>
       j.dirty = {c \in Columns : j.entity[c] # held[c]}

AloneFits == "session" \notin overlapped =>
               \A h \in Handlers : OnSession(h) => AsLoaded(h)

RowsFit == TypesFit /\ AloneFits /\ RowsOnlyOnHeldSessions

LEMMA RowColumns == ASSUME NEW loaded \in Session
                    PROVE  /\ DOMAIN loaded = Columns
                           /\ loaded = [c \in Columns |-> loaded[c]]
                           /\ loaded["status"] = loaded.status /\ loaded["subject"] = loaded.subject /\ loaded["slot"] = loaded.slot
  BY DEF Session, Columns

\* Alone, the UPDATE writes the entity.
LEMMA FlushedIsEntity ==
  ASSUME TypesFit, AloneFits, "session" \notin overlapped, NEW h \in Handlers, OnSession(h),
         pc[h] \in {"flushSession", "tally", "commit"}, job[h].op # "amend"
  PROVE  Flushed(h) = job[h].entity
<1>1. job[h] \in SessionJobs
  BY DEF TypesFit, JobsFit, FitsAt
<1>2. job[h].entity \in Session
  BY <1>1 DEF SessionJobs
<1>3. DOMAIN job[h].entity = Columns /\ job[h].entity = [c \in Columns |-> job[h].entity[c]]
  BY <1>2, RowColumns
<1>4. job[h].dirty = {c \in Columns : job[h].entity[c] # sessions[job[h].session][c]}
  BY DEF AloneFits, AsLoaded
<1>5. Flushed(h) = [c \in Columns |-> job[h].entity[c]]
  BY <1>3, <1>4 DEF Flushed
<1> QED BY <1>3, <1>5

\* The class a session is of, as far as its attendance is concerned.
SameClass(s) == /\ sessions'[s].status = sessions[s].status /\ sessions'[s].subject = sessions[s].subject
                /\ sessions'[s].slot = sessions[s].slot

HasRows(s) == \E st \in Students : marks[s][st] # NoRow

\* The UPDATE of a transaction alone on its session leaves a session with
\* attendance the same class.
LEMMA FlushEffect ==
  ASSUME RowsFit, "session" \notin overlapped, NEW h \in Handlers, FlushSession(h)
  PROVE  \A s \in Sessions : /\ HasRows(s) => SameClass(s)
                             /\ s # job[h].session => sessions'[s] = sessions[s]
<1>1. job[h] \in SessionJobs /\ job[h].session \in Sessions /\ pc[h] = "flushSession" /\ job[h].op # "amend"
      /\ OnSession(h)
  BY DEF RowsFit, TypesFit, JobsFit, FitsAt, SessionJobs, FlushSession, At, OnSession
<1>2. CASE job[h].op = "mark"
  BY <1>2 DEF FlushSession, SameClass
<1>3. CASE job[h].op # "mark"
  <2> DEFINE s == job[h].session
  <2>1. sessions' = [sessions EXCEPT ![s] = job[h].entity]
    BY <1>1, <1>3, FlushedIsEntity DEF FlushSession, RowsFit
  <2>2. AsLoaded(h)
    BY <1>1 DEF RowsFit, AloneFits
  <2>3. HasRows(s) => sessions[s].status = "completed"
    BY <1>1 DEF RowsFit, RowsOnlyOnHeldSessions, HasRows
  <2>4. HasRows(s) => job[h].op = "substitute"
    BY <1>1, <1>3, <2>2, <2>3 DEF AsLoaded, SessionJobs
  <2>5. HasRows(s) => SameClass(s)
    BY <1>1, <2>1, <2>2, <2>4 DEF AsLoaded, SameClass, RowsFit, TypesFit, TablesFit
  <2> QED BY <2>1, <2>5 DEF SameClass, RowsFit, TypesFit, TablesFit
<1> QED BY <1>2, <1>3

\* The commit of a marking alone on its session.
CommitAlone(h) ==
  LET s == job[h].session IN
  /\ sessions'[s].status = "completed" /\ sessions'[s].subject = job[h].entity.subject
  /\ sessions'[s].subject = sessions[s].subject /\ sessions'[s].slot = sessions[s].slot
  /\ sessions[s].status # "cancelled"
  /\ job[h].op = "amend" => sessions[s].status = "completed"
  /\ job[h].op = "mark" => ~HasRows(s)
  /\ \A r \in Sessions \ {s} : sessions'[r] = sessions[r] /\ marks'[r] = marks[r]
  /\ \A st \in Students : marks'[s][st] = IF st \in job[h].written THEN job[h].target[st] ELSE marks[s][st]

LEMMA CommitEffect ==
  ASSUME RowsFit, "session" \notin overlapped, NEW h \in Handlers, CommitMark(h)
  PROVE  CommitAlone(h)
<1> DEFINE s == job[h].session
<1>1. /\ job[h] \in SessionJobs /\ s \in Sessions /\ pc[h] = "commit" /\ job[h].op \in {"mark", "amend"}
      /\ OnSession(h)
  BY DEF RowsFit, TypesFit, JobsFit, FitsAt, SessionJobs, CommitMark, At, OnSession
<1>2. AsLoaded(h)
  BY <1>1 DEF RowsFit, AloneFits
<1>3. SessionSeen(h, s) = IF job[h].op = "mark" THEN job[h].entity ELSE sessions[s]
  BY <1>1, FlushedIsEntity DEF SessionSeen, RowsFit
<1>4. sessions' = [sessions EXCEPT ![s] = IF job[h].op = "mark" THEN job[h].entity ELSE sessions[s]]
  BY <1>3 DEF CommitMark
<1>5. \A r \in Sessions \ {s} : sessions'[r] = sessions[r] /\ marks'[r] = marks[r]
  BY <1>4 DEF CommitMark, RowsFit, TypesFit, TablesFit
<1>6. /\ sessions'[s].status = "completed" /\ sessions'[s].subject = job[h].entity.subject
      /\ sessions'[s].subject = sessions[s].subject /\ sessions'[s].slot = sessions[s].slot
      /\ sessions[s].status # "cancelled"
  BY <1>1, <1>2, <1>4 DEF AsLoaded, RowsFit, TypesFit, TablesFit
<1>7. job[h].op = "mark" => ~HasRows(s)
  BY <1>1, <1>2 DEF AsLoaded, RowsFit, RowsOnlyOnHeldSessions, HasRows
<1>8. \A st \in Students : marks'[s][st] = IF st \in job[h].written THEN job[h].target[st] ELSE marks[s][st]
  BY <1>1 DEF CommitMark, MarkSeen, RowsFit, TypesFit, TablesFit
<1>9. job[h].op = "amend" => sessions[s].status = "completed"
  BY <1>2 DEF AsLoaded
<1> QED BY <1>5, <1>6, <1>7, <1>8, <1>9 DEF CommitAlone

\* A leave decision makes an absence a leave or a leave an absence.
LEMMA DecisionEffect ==
  ASSUME TypesFit, NEW h \in Handlers, CommitDecision(h)
  PROVE  \A s \in Sessions, st \in Students :
           \/ marks'[s][st] = marks[s][st]
           \/ marks[s][st] \in {"absent", "leave"} /\ marks'[s][st] \in {"absent", "leave"}
<1> SUFFICES ASSUME NEW s \in Sessions, NEW st \in Students
             PROVE  \/ marks'[s][st] = marks[s][st]
                    \/ marks[s][st] \in {"absent", "leave"} /\ marks'[s][st] \in {"absent", "leave"}
  OBVIOUS
<1> DEFINE st0 == StudentOf[job[h].leave]
<1>1. marks[s] \in [Students -> Submitted \cup {NoRow}]
  BY DEF TypesFit, TablesFit
<1>2. marks'[s] = IF s \in job[h].found /\ marks[s][st0] = From(job[h].op)
                    THEN [marks[s] EXCEPT ![st0] = To(job[h].op)] ELSE marks[s]
  BY DEF CommitDecision
<1>3. From(job[h].op) \in {"absent", "leave"} /\ To(job[h].op) \in {"absent", "leave"}
  BY DEF From, To
<1> HIDE DEF st0
<1> QED BY <1>1, <1>2, <1>3

\* A step is one transaction's, and writes the tables in three places.
Starts(h) == \E s \in Sessions :
  \/ Cancel(h, s) \/ Uncancel(h, s) \/ StartMark(h, s)
  \/ \E b \in Subjects, t \in Teachers : EditSession(h, s, b, t)
  \/ \E slot \in Slots : Move(h, s, slot)
  \/ \E t \in Teachers : Substitute(h, s, t)

Decides(h) == \E l \in Leaves, op \in {"approve", "revoke"} : StartDecision(h, l, op)

LEMMA Steps ==
  ASSUME NEW h \in Handlers, Step(h)
  PROVE  \/ Starts(h) \/ ReadLeaves(h) \/ ReloadRows(h) \/ FlushRows(h) \/ ReloadSession(h)
         \/ FlushSession(h) \/ Tally(h) \/ CommitMark(h) \/ Decides(h) \/ CommitDecision(h) \/ Fail(h)
  BY DEF Step, Starts, Decides

LEMMA Others ==
  ASSUME TypesFit, NEW h \in Handlers, Step(h), NEW g \in Handlers, g # h
  PROVE  pc'[g] = pc[g] /\ job'[g] = job[g]
<1> USE DEF TypesFit, JobsFit, Goto, Set, Finish
<1>1. CASE Starts(h)
  BY <1>1 DEF Starts, Cancel, Uncancel, StartMark, EditSession, Move, Substitute, Load
<1>2. CASE ReadLeaves(h)
  BY <1>2 DEF ReadLeaves
<1>3. CASE ReloadRows(h) \/ FlushRows(h) \/ ReloadSession(h) \/ Tally(h)
  BY <1>3 DEF ReloadRows, FlushRows, ReloadSession, Tally
<1>4. CASE FlushSession(h) \/ CommitMark(h) \/ CommitDecision(h) \/ Fail(h)
  BY <1>4 DEF FlushSession, CommitMark, CommitDecision, Fail
<1>5. CASE Decides(h)
  BY <1>5 DEF Decides, StartDecision
<1> QED BY <1>1, <1>2, <1>3, <1>4, <1>5, Steps

LEMMA Writers ==
  ASSUME NEW h \in Handlers, Step(h)
  PROVE  FlushSession(h) \/ CommitMark(h) \/ CommitDecision(h) \/ UNCHANGED tables
  BY Steps DEF Starts, Cancel, Uncancel, StartMark, EditSession, Move, Substitute, Load, ReadLeaves, ReloadRows,
               FlushRows, ReloadSession, Tally, Decides, StartDecision, Fail

-----------------------------------------------------------------------------
(* Attendance rows stand on held sessions only *)

LEMMA StartsLoaded ==
  ASSUME TypesFit, NEW h \in Handlers, Starts(h)
  PROVE  AsLoaded(h)'
<1>1. PICK s \in Sessions :
        \/ Cancel(h, s) \/ Uncancel(h, s) \/ StartMark(h, s)
        \/ \E b \in Subjects, t \in Teachers : EditSession(h, s, b, t)
        \/ \E slot \in Slots : Move(h, s, slot)
        \/ \E t \in Teachers : Substitute(h, s, t)
  BY DEF Starts
<1>2. sessions[s] \in Session
  BY DEF TypesFit, TablesFit
<1>3. ASSUME NEW op, NEW entity, NEW label, label \in {"leaves", "reloadSession"}, Load(h, s, op, entity, label)
      PROVE  /\ job'[h].op = op /\ job'[h].session = s /\ job'[h].entity = entity /\ pc'[h] = label
             /\ sessions' = sessions
  BY <1>3 DEF Load, Set, Goto, tables, TypesFit, JobsFit
<1>4. CASE Cancel(h, s)
  <2> DEFINE e == [sessions[s] EXCEPT !.status = "cancelled"]
  <2>1. Load(h, s, "cancel", e, "reloadSession") /\ sessions[s].status = "scheduled"
    BY <1>4 DEF Cancel
  <2>2. job'[h].op = "cancel" /\ job'[h].session = s /\ pc'[h] = "reloadSession" /\ sessions' = sessions
    BY <1>3, <2>1
  <2> QED BY <2>1, <2>2 DEF AsLoaded
<1>5. CASE Uncancel(h, s)
  <2> DEFINE e == [sessions[s] EXCEPT !.status = "scheduled"]
  <2>1. Load(h, s, "uncancel", e, "reloadSession") /\ sessions[s].status = "cancelled"
    BY <1>5 DEF Uncancel
  <2>2. job'[h].op = "uncancel" /\ job'[h].session = s /\ pc'[h] = "reloadSession" /\ sessions' = sessions
    BY <1>3, <2>1
  <2> QED BY <2>1, <2>2 DEF AsLoaded
<1>6. CASE StartMark(h, s)
  <2> DEFINE e == [sessions[s] EXCEPT !.status = "completed"]
             op == IF sessions[s].status = "completed" THEN "amend" ELSE "mark"
  <2>1. Load(h, s, op, e, "leaves") /\ sessions[s].status # "cancelled"
    BY <1>6 DEF StartMark
  <2>2. job'[h].op = op /\ job'[h].session = s /\ job'[h].entity = e /\ pc'[h] = "leaves" /\ sessions' = sessions
    <3> HIDE DEF op, e
    <3> QED BY <1>3, <2>1
  <2>3. e.status = "completed" /\ e.subject = sessions[s].subject /\ e.slot = sessions[s].slot
    BY <1>2 DEF Session
  <2>4. sessions[s].status \in {"scheduled", "completed"}
    BY <1>2, <2>1 DEF Session
  <2> HIDE DEF e
  <2> QED BY <2>2, <2>3, <2>4 DEF AsLoaded
<1>7. ASSUME NEW b \in Subjects, NEW t \in Teachers, EditSession(h, s, b, t) PROVE AsLoaded(h)'
  <2> DEFINE e == [sessions[s] EXCEPT !.subject = b, !.teacher = t]
  <2>1. Load(h, s, "edit", e, "reloadSession") /\ sessions[s].status = "scheduled"
    BY <1>7 DEF EditSession
  <2> HIDE DEF e
  <2>2. job'[h].op = "edit" /\ job'[h].session = s /\ pc'[h] = "reloadSession" /\ sessions' = sessions
    BY <1>3, <2>1
  <2> QED BY <2>1, <2>2 DEF AsLoaded
<1>8. ASSUME NEW slot \in Slots, Move(h, s, slot) PROVE AsLoaded(h)'
  <2> DEFINE e == [sessions[s] EXCEPT !.slot = slot]
  <2>1. Load(h, s, "move", e, "reloadSession") /\ sessions[s].status = "scheduled"
    BY <1>8 DEF Move
  <2> HIDE DEF e
  <2>2. job'[h].op = "move" /\ job'[h].session = s /\ pc'[h] = "reloadSession" /\ sessions' = sessions
    BY <1>3, <2>1
  <2> QED BY <2>1, <2>2 DEF AsLoaded
<1>9. ASSUME NEW t \in Teachers, Substitute(h, s, t) PROVE AsLoaded(h)'
  <2> DEFINE e == [sessions[s] EXCEPT !.teacher = t]
  <2>1. Load(h, s, "substitute", e, "reloadSession")
    BY <1>9 DEF Substitute
  <2>2. e.status = sessions[s].status /\ e.subject = sessions[s].subject /\ e.slot = sessions[s].slot
    BY <1>2 DEF Session
  <2> HIDE DEF e
  <2>3. job'[h].op = "substitute" /\ job'[h].session = s /\ job'[h].entity = e /\ pc'[h] = "reloadSession" /\ sessions' = sessions
    BY <1>3, <2>1
  <2> QED BY <2>1, <2>2, <2>3 DEF AsLoaded
<1> QED BY <1>1, <1>4, <1>5, <1>6, <1>7, <1>8, <1>9

LEMMA GoesOnLoaded ==
  ASSUME TypesFit, NEW h \in Handlers, AsLoaded(h),
         \/ ReadLeaves(h) \/ ReloadRows(h) \/ FlushRows(h) \/ ReloadSession(h) \/ Tally(h)
         \/ FlushSession(h) /\ job[h].op = "mark"
  PROVE  AsLoaded(h)'
<1>1. pc[h] \notin {"idle", "flip"} /\ FitsAt(pc[h], job[h]) /\ job[h] \in SessionJobs
  BY DEF TypesFit, JobsFit, FitsAt, ReadLeaves, ReloadRows, FlushRows, ReloadSession, Tally, FlushSession, At
<1> USE DEF TypesFit, JobsFit, Goto, Set, At, tables
<1>2. CASE ReadLeaves(h)
  <2>1. PICK target : job' = [job EXCEPT ![h] = [job[h] EXCEPT
                        !.known = {st \in Students : marks[job[h].session][st] # NoRow},
                        !.target = target]]
    BY <1>2, ReadLeavesEffect
  <2>2. /\ job'[h].op = job[h].op /\ job'[h].session = job[h].session /\ job'[h].entity = job[h].entity
        /\ pc'[h] = "reloadRows" /\ sessions' = sessions
    BY <1>1, <1>2, <2>1 DEF ReadLeaves, SessionJobs
  <2> QED BY <2>2 DEF AsLoaded
<1>3. CASE ReloadRows(h) \/ FlushRows(h)
  <2>1. /\ job'[h].op = job[h].op /\ job'[h].session = job[h].session /\ job'[h].entity = job[h].entity
        /\ sessions' = sessions
    BY <1>1, <1>3 DEF ReloadRows, FlushRows, SessionJobs
  <2>2. \/ pc'[h] \in {"flushRows", "reloadSession"}
        \/ pc'[h] = "tally" /\ job[h].op = "amend"
    BY <1>1, <1>3 DEF ReloadRows, FlushRows, FitsAt
  <2> QED BY <2>1, <2>2 DEF AsLoaded
<1>4. CASE ReloadSession(h)
  <2>1. DOMAIN job[h].entity = Columns
    BY <1>1, RowColumns DEF SessionJobs
  <2>2. /\ job'[h].op = job[h].op /\ job'[h].session = job[h].session /\ job'[h].entity = job[h].entity
        /\ job'[h].dirty = {c \in Columns : job[h].entity[c] # sessions[job[h].session][c]}
        /\ pc'[h] = "flushSession" /\ sessions' = sessions
    BY <1>1, <1>4, <2>1 DEF ReloadSession, SessionJobs
  <2> QED BY <2>2 DEF AsLoaded
<1>5. CASE Tally(h)
  <2>1. /\ job'[h].op = job[h].op /\ job'[h].session = job[h].session /\ job'[h].entity = job[h].entity
        /\ job'[h].dirty = job[h].dirty
        /\ pc[h] = "tally" /\ pc'[h] = "commit" /\ sessions' = sessions
    BY <1>1, <1>5 DEF Tally, SessionJobs
  <2> QED BY <2>1 DEF AsLoaded
<1>6. CASE FlushSession(h) /\ job[h].op = "mark"
  <2>1. job' = job /\ pc[h] = "flushSession" /\ pc'[h] = "tally" /\ sessions' = sessions
    BY <1>6 DEF FlushSession
  <2> QED BY <2>1 DEF AsLoaded
<1> QED BY <1>2, <1>3, <1>4, <1>5, <1>6

LEMMA Stops ==
  ASSUME TypesFit, NEW h \in Handlers,
         \/ CommitMark(h) \/ Decides(h) \/ CommitDecision(h) \/ Fail(h)
         \/ FlushSession(h) /\ job[h].op # "mark"
  PROVE  ~OnSession(h)'
  BY DEF CommitMark, Decides, StartDecision, CommitDecision, Fail, FlushSession, Finish, Goto, Set, OnSession, TypesFit, JobsFit

\* Without overlaps on a session, nobody writes the session of another.
LEMMA OthersSession ==
  ASSUME RowsFit, "session" \notin overlapped, NEW h \in Handlers, Step(h),
         NEW g \in Handlers, g # h, OnSession(g)
  PROVE  sessions'[job[g].session] = sessions[job[g].session]
<1>1. FlushSession(h) \/ CommitMark(h) => OnSession(h)
  BY DEF FlushSession, CommitMark, At, OnSession
<1>2. FlushSession(h) \/ CommitMark(h) => job[g].session # job[h].session
  BY <1>1, Apart DEF RowsFit, TypesFit
<1>3. job[g].session \in Sessions
  BY DEF RowsFit, TypesFit, JobsFit, FitsAt, OnSession, SessionJobs
<1>4. CASE FlushSession(h)
  BY <1>2, <1>3, <1>4, FlushEffect
<1>5. CASE CommitMark(h)
  BY <1>2, <1>3, <1>5, CommitEffect DEF CommitAlone
<1>6. CASE CommitDecision(h) \/ UNCHANGED tables
  BY <1>6 DEF CommitDecision, tables
<1> QED BY <1>4, <1>5, <1>6, Writers

LEMMA RowsStep == ASSUME RowsFit, AttendanceNext PROVE RowsFit'
<1>1. TypesFit' /\ TypesFit
  BY TypesStep DEF RowsFit
<1>2. PICK h \in Handlers : Step(h)
  BY DEF AttendanceNext
<1> SUFFICES ASSUME "session" \notin overlapped'
             PROVE  /\ \A g \in Handlers : OnSession(g)' => AsLoaded(g)'
                    /\ \A s \in Sessions, st \in Students :
                         marks'[s][st] # NoRow => sessions'[s].status = "completed"
  BY <1>1 DEF RowsFit, AloneFits, RowsOnlyOnHeldSessions
<1>3. "session" \notin overlapped
  BY Remembers
<1>4. ASSUME NEW g \in Handlers, OnSession(g)' PROVE AsLoaded(g)'
  <2>1. CASE g # h
    <3>1. pc'[g] = pc[g] /\ job'[g] = job[g]
      BY <1>1, <1>2, <2>1, Others
    <3>2. OnSession(g) /\ AsLoaded(g)
      BY <1>3, <1>4, <3>1 DEF OnSession, RowsFit, AloneFits
    <3>3. sessions'[job[g].session] = sessions[job[g].session]
      BY <1>2, <1>3, <2>1, <3>2, OthersSession
    <3> QED BY <3>1, <3>2, <3>3 DEF AsLoaded
  <2>2. CASE g = h
    <3>1. CASE Starts(h)
      BY <1>1, <2>2, <3>1, StartsLoaded
    <3>2. CASE \/ ReadLeaves(h) \/ ReloadRows(h) \/ FlushRows(h) \/ ReloadSession(h) \/ Tally(h)
               \/ FlushSession(h) /\ job[h].op = "mark"
      <4>1. OnSession(h)
        BY <3>2 DEF ReadLeaves, ReloadRows, FlushRows, ReloadSession, Tally, FlushSession, At, OnSession
      <4>2. AsLoaded(h)
        BY <1>3, <4>1 DEF RowsFit, AloneFits
      <4> QED BY <1>1, <2>2, <3>2, <4>2, GoesOnLoaded
    <3>3. CASE \/ CommitMark(h) \/ Decides(h) \/ CommitDecision(h) \/ Fail(h)
               \/ FlushSession(h) /\ job[h].op # "mark"
      BY <1>1, <1>4, <2>2, <3>3, Stops
    <3> QED BY <1>2, <3>1, <3>2, <3>3, Steps
  <2> QED BY <2>1, <2>2
<1>5. ASSUME NEW s \in Sessions, NEW st \in Students, marks'[s][st] # NoRow
      PROVE  sessions'[s].status = "completed"
  <2>1. marks[s][st] # NoRow => sessions[s].status = "completed"
    BY <1>3 DEF RowsFit, RowsOnlyOnHeldSessions
  <2>2. CASE FlushSession(h)
    <3>1. marks' = marks
      BY <2>2 DEF FlushSession
    <3> QED BY <1>3, <1>5, <2>1, <2>2, <3>1, FlushEffect DEF HasRows, SameClass
  <2>3. CASE CommitMark(h)
    <3>1. CommitAlone(h)
      BY <1>3, <2>3, CommitEffect
    <3> QED BY <1>5, <2>1, <3>1 DEF CommitAlone
  <2>4. CASE CommitDecision(h)
    <3>1. marks[s][st] # NoRow
      BY <1>1, <1>5, <2>4, DecisionEffect DEF NoRow
    <3> QED BY <2>1, <2>4, <3>1 DEF CommitDecision
  <2>5. CASE UNCHANGED tables
    BY <1>5, <2>1, <2>5 DEF tables
  <2> QED BY <1>2, <2>2, <2>3, <2>4, <2>5, Writers
<1> QED BY <1>4, <1>5

LEMMA RowsInit == AttendanceInit => RowsFit
<1> SUFFICES ASSUME AttendanceInit PROVE RowsFit
  OBVIOUS
<1>1. pc = [h \in Handlers |-> "idle"] /\ job = [h \in Handlers |-> NoJob] /\ overlapped = {}
  BY DEF AttendanceInit
<1>2. JobsFit
  BY <1>1 DEF JobsFit, FitsAt, Labels
<1>3. Overlaps = {}
  BY <1>1 DEF Overlaps, OnSession, Marking, At
<1>4. [held |-> 0, attended |-> 0] \in Counts
  <2>1. Cardinality(Sessions) \in Nat
    BY SessionAssumption, FS_CardinalityType
  <2> QED BY <2>1 DEF Counts
<1>5. TablesFit
  BY <1>4 DEF AttendanceInit, TablesFit
<1>6. AloneFits
  BY <1>1 DEF AloneFits, OnSession
<1>7. RowsOnlyOnHeldSessions
  BY DEF AttendanceInit, RowsOnlyOnHeldSessions
<1> QED BY <1>1, <1>2, <1>3, <1>5, <1>6, <1>7 DEF RowsFit, TypesFit, OverlapFits

LEMMA RowsStutter == ASSUME RowsFit, UNCHANGED attendanceVars PROVE RowsFit'
<1>1. /\ sessions' = sessions /\ marks' = marks /\ rollup' = rollup /\ leaves' = leaves
      /\ pc' = pc /\ job' = job /\ overlapped' = overlapped
  BY DEF attendanceVars
<1>2. Overlaps' = Overlaps
  BY <1>1 DEF Overlaps, OnSession, Marking, At
<1>3. TypesFit'
  BY <1>1, <1>2 DEF RowsFit, TypesFit, TablesFit, JobsFit, OverlapFits
<1>4. AloneFits' /\ RowsOnlyOnHeldSessions'
  BY <1>1 DEF RowsFit, AloneFits, OnSession, AsLoaded, RowsOnlyOnHeldSessions
<1> QED BY <1>3, <1>4 DEF RowsFit

LEMMA RowsInvariant == AttendanceSpec => []RowsFit
<1>1. RowsFit /\ [AttendanceNext]_attendanceVars => RowsFit'
  BY RowsStep, RowsStutter
<1> QED BY <1>1, RowsInit, PTL DEF AttendanceSpec

\* A session with attendance rows has been held, as long as no two transactions
\* work on one session, whatever is cancelled, moved, amended, re-opened or
\* substituted (attendance-marking.service.ts, class-sessions.service.ts).
THEOREM AttendanceSound == AttendanceSpec => []AttendanceInv
<1>1. ASSUME RowsFit PROVE AttendanceInv
  <2>1. ASSUME NEW h \in Handlers
        PROVE  IF job[h] = NoJob THEN pc[h] = "idle"
               ELSE job[h] \in IF pc[h] = "flip" THEN LeaveJobs ELSE SessionJobs
    <3>1. FitsAt(pc[h], job[h])
      BY <1>1 DEF RowsFit, TypesFit, JobsFit
    <3>2. NoJob \notin LeaveJobs /\ NoJob \notin SessionJobs
      BY DEF NoJob, LeaveJobs, SessionJobs
    <3> QED BY <3>1, <3>2 DEF FitsAt
  <2> QED BY <1>1, <2>1 DEF RowsFit, TypesFit, TablesFit, JobsFit, Labels, OverlapFits, AttendanceInv, AttendanceTypeOK
<1> QED BY <1>1, RowsInvariant, PTL

\* Only a teacher takes a student's presence back: no leave decision, whenever it
\* read the marks, rewrites a mark amended to present meanwhile (flip).
THEOREM PresenceIsKept == AttendanceSpec => PresenceIsTheTeachers
<1>1. ASSUME RowsFit, [AttendanceNext]_attendanceVars, NEW s \in Sessions, NEW st \in Students,
             marks[s][st] = "present", marks'[s][st] # "present"
      PROVE  \E h \in Handlers : Marking(h) /\ job[h].session = s /\ pc'[h] = "idle"
  <2>1. AttendanceNext
    BY <1>1 DEF attendanceVars
  <2>2. PICK h \in Handlers : Step(h)
    BY <2>1 DEF AttendanceNext
  <2>3. CASE CommitMark(h)
    <3>1. Marking(h) /\ pc'[h] = "idle"
      BY <1>1, <2>3 DEF RowsFit, TypesFit, JobsFit, FitsAt, CommitMark, At, Marking, OnSession, Finish, Goto
    <3>2. s # job[h].session => marks'[s] = marks[s]
      BY <1>1, <2>3 DEF CommitMark, RowsFit, TypesFit, TablesFit
    <3> QED BY <1>1, <3>1, <3>2
  <2>4. CASE CommitDecision(h)
    BY <1>1, <2>4, DecisionEffect DEF RowsFit
  <2>5. CASE FlushSession(h) \/ UNCHANGED tables
    BY <1>1, <2>5 DEF FlushSession, tables
  <2> QED BY <2>2, <2>3, <2>4, <2>5, Writers
<1>2. RowsFit /\ [AttendanceNext]_attendanceVars =>
        (\A s \in Sessions, st \in Students :
           marks[s][st] = "present" /\ marks'[s][st] # "present" =>
             \E h \in Handlers : Marking(h) /\ job[h].session = s /\ pc'[h] = "idle")
  BY <1>1
<1> QED BY <1>2, RowsInvariant, PTL DEF AttendanceSpec, PresenceIsTheTeachers

-----------------------------------------------------------------------------
(* Leave decisions *)

Disjoint(k, l) == RangeOf[k] \cap RangeOf[l] = {}

\* A decision in flight has its student to itself, and the leave it approves is
\* disjoint from the student's effective ones.
DecisionsApart ==
  /\ \A g, h \in Handlers :
       g # h /\ At(g, "flip") /\ At(h, "flip") => StudentOf[job[g].leave] # StudentOf[job[h].leave]
  /\ \A h \in Handlers : At(h, "flip") /\ job[h].op = "revoke" => leaves[job[h].leave] = "effective"
  /\ \A h \in Handlers, k \in Leaves :
       /\ At(h, "flip") /\ job[h].op = "approve" /\ k # job[h].leave
       /\ leaves[k] = "effective" /\ StudentOf[k] = StudentOf[job[h].leave]
       => Disjoint(job[h].leave, k)
  /\ \A k, l \in Leaves :
       /\ k # l /\ leaves[k] = "effective" /\ leaves[l] = "effective" /\ StudentOf[k] = StudentOf[l]
       => Disjoint(k, l)

LEMMA LeaveWriters ==
  ASSUME NEW h \in Handlers, Step(h)
  PROVE  CommitDecision(h) \/ leaves' = leaves
  BY Writers DEF FlushSession, CommitMark, tables

\* Who stands at flip has just begun or stood there.
LEMMA FlipsStay ==
  ASSUME TypesFit, NEW h \in Handlers, Step(h), ~Decides(h), NEW g \in Handlers, At(g, "flip")'
  PROVE  At(g, "flip") /\ job'[g] = job[g] /\ g # h
<1>1. pc'[h] # "flip"
  <2> USE DEF TypesFit, JobsFit, Goto, Set, Finish
  <2>1. CASE Starts(h)
    BY <2>1 DEF Starts, Cancel, Uncancel, StartMark, EditSession, Move, Substitute, Load
  <2>2. CASE ReadLeaves(h)
    BY <2>2 DEF ReadLeaves
  <2>3. CASE ReloadRows(h) \/ FlushRows(h) \/ ReloadSession(h) \/ Tally(h)
    BY <2>3 DEF ReloadRows, FlushRows, ReloadSession, Tally
  <2>4. CASE FlushSession(h) \/ CommitMark(h) \/ CommitDecision(h) \/ Fail(h)
    BY <2>4 DEF FlushSession, CommitMark, CommitDecision, Fail
  <2> QED BY <2>1, <2>2, <2>3, <2>4, Steps
<1> QED BY <1>1, Others DEF At

LEMMA DecisionsStep ==
  ASSUME TypesFit, DecisionsApart, AttendanceNext
  PROVE  DecisionsApart'
<1>1. PICK h \in Handlers : Step(h)
  BY DEF AttendanceNext
<1>2. TypesFit'
  BY TypesStep
<1>3. \A g \in Handlers : At(g, "flip") => job[g] \in LeaveJobs /\ job[g].leave \in Leaves
                                           /\ job[g].op \in {"approve", "revoke"}
  BY DEF TypesFit, JobsFit, FitsAt, At, LeaveJobs
<1>4. CASE Decides(h)
  <2>1. PICK l \in Leaves, op \in {"approve", "revoke"} : StartDecision(h, l, op)
    BY <1>4 DEF Decides
  <2>2. /\ job'[h].leave = l /\ job'[h].op = op /\ leaves' = leaves
    BY <2>1 DEF StartDecision, Set, tables, TypesFit, JobsFit
  <2>3. \A g \in Handlers : g # h => pc'[g] = pc[g] /\ job'[g] = job[g]
    BY <1>1, Others
  <2>4. /\ \A g \in Handlers : At(g, "flip") => StudentOf[job[g].leave] # StudentOf[l]
        /\ op = "approve" => \A k \in Leaves : leaves[k] = "effective" /\ StudentOf[k] = StudentOf[l]
                               => RangeOf[k] \cap RangeOf[l] = {}
        /\ op = "revoke" => leaves[l] = "effective"
    BY <2>1 DEF StartDecision
  <2>5. \A f, g \in Handlers : f # g /\ At(f, "flip")' /\ At(g, "flip")'
                                => StudentOf[job'[f].leave] # StudentOf[job'[g].leave]
    BY <2>2, <2>3, <2>4 DEF DecisionsApart, At
  <2>6. \A g \in Handlers : At(g, "flip")' /\ job'[g].op = "revoke" => leaves'[job'[g].leave] = "effective"
    BY <2>2, <2>3, <2>4 DEF DecisionsApart, At
  <2>7. ASSUME NEW g \in Handlers, NEW k \in Leaves, At(g, "flip")', job'[g].op = "approve", k # job'[g].leave,
               leaves'[k] = "effective", StudentOf[k] = StudentOf[job'[g].leave]
        PROVE  Disjoint(job'[g].leave, k)
    <3>1. CASE g = h
      BY <2>2, <2>4, <2>7, <3>1 DEF Disjoint
    <3>2. CASE g # h
      BY <2>2, <2>3, <2>7, <3>2 DEF DecisionsApart, At
    <3> QED BY <3>1, <3>2
  <2>8. ASSUME NEW k \in Leaves, NEW m \in Leaves, k # m, leaves'[k] = "effective", leaves'[m] = "effective",
               StudentOf[k] = StudentOf[m]
        PROVE  Disjoint(k, m)
    BY <2>2, <2>8 DEF DecisionsApart
  <2> QED BY <2>5, <2>6, <2>7, <2>8 DEF DecisionsApart, Disjoint
<1>5. CASE ~Decides(h)
  <2>1. \A g \in Handlers : At(g, "flip")' => At(g, "flip") /\ job'[g] = job[g] /\ g # h
    BY <1>1, <1>5, FlipsStay
  <2>2. CASE leaves' = leaves
    BY <2>1, <2>2 DEF DecisionsApart, Disjoint
  <2>3. CASE CommitDecision(h)
    <3> DEFINE l == job[h].leave
    <3>1. /\ leaves' = [leaves EXCEPT ![l] = IF job[h].op = "approve" THEN "effective" ELSE "over"]
          /\ At(h, "flip") /\ l \in Leaves
      BY <1>3, <2>3 DEF CommitDecision
    <3>2. \A k \in Leaves : k # l => leaves'[k] = leaves[k]
      BY <3>1 DEF TypesFit, TablesFit
    <3>3. leaves'[l] = "effective" => job[h].op = "approve"
      BY <3>1 DEF TypesFit, TablesFit
    <3>4. \A g \in Handlers : At(g, "flip")' => StudentOf[job[g].leave] # StudentOf[l] /\ job[g].leave # l
      BY <2>1, <3>1 DEF DecisionsApart
    <3>5. \A f, g \in Handlers : f # g /\ At(f, "flip")' /\ At(g, "flip")'
                                => StudentOf[job'[f].leave] # StudentOf[job'[g].leave]
      BY <2>1 DEF DecisionsApart
    <3>6. \A g \in Handlers : At(g, "flip")' /\ job'[g].op = "revoke" => leaves'[job'[g].leave] = "effective"
      BY <1>3, <2>1, <3>2, <3>4 DEF DecisionsApart
    <3>7. ASSUME NEW g \in Handlers, NEW k \in Leaves, At(g, "flip")', job'[g].op = "approve", k # job'[g].leave,
                 leaves'[k] = "effective", StudentOf[k] = StudentOf[job'[g].leave]
          PROVE  Disjoint(job'[g].leave, k)
      BY <2>1, <3>2, <3>4, <3>7 DEF DecisionsApart
    <3>8. ASSUME NEW k \in Leaves, NEW m \in Leaves, k # m, leaves'[k] = "effective", leaves'[m] = "effective",
                 StudentOf[k] = StudentOf[m]
          PROVE  Disjoint(k, m)
      <4>1. CASE k # l /\ m # l
        BY <3>2, <3>8, <4>1 DEF DecisionsApart
      <4>2. CASE k = l
        <5>1. Disjoint(l, m)
          BY <3>1, <3>2, <3>3, <3>8, <4>2 DEF DecisionsApart
        <5> QED BY <4>2, <5>1
      <4>3. CASE m = l
        <5>1. Disjoint(l, k)
          BY <3>1, <3>2, <3>3, <3>8, <4>3 DEF DecisionsApart
        <5> QED BY <4>3, <5>1 DEF Disjoint
      <4> QED BY <4>1, <4>2, <4>3
    <3> QED BY <3>5, <3>6, <3>7, <3>8 DEF DecisionsApart, Disjoint
  <2> QED BY <1>1, <2>2, <2>3, LeaveWriters
<1> QED BY <1>4, <1>5

-----------------------------------------------------------------------------
(* Absences and leaves agree *)

\* What a marking will write agrees with the leaves; what a decision will flip is
\* all there is to flip.
MarkFits(g) == Marking(g) /\ pc[g] # "leaves" => MatchesLeaves(job[g].session, job[g].target)

FlipFits(g) == At(g, "flip") =>
  job[g].found = {s \in Sessions : /\ sessions[s].status = "completed" /\ Covers(job[g].leave, s)
                                   /\ marks[s][StudentOf[job[g].leave]] = From(job[g].op)}

MarksMatch(s, st) == /\ marks[s][st] = "absent" => st \notin OnLeave(s)
                     /\ marks[s][st] = "leave" => st \in OnLeave(s)

AbsencesFit ==
  overlapped \cap {"session", "leave"} = {} =>
    /\ \A g \in Handlers : MarkFits(g) /\ FlipFits(g)
    /\ \A s \in Sessions, st \in Students : MarksMatch(s, st)

LeavesFit == RowsFit /\ DecisionsApart /\ AbsencesFit

SameCover(s) == /\ sessions'[s].slot = sessions[s].slot
                /\ sessions'[s].status = "cancelled" <=> sessions[s].status = "cancelled"

LEMMA OnLeaveKept ==
  ASSUME NEW s, leaves' = leaves, SameCover(s)
  PROVE  OnLeave(s)' = OnLeave(s)
  BY DEF OnLeave, Covers, SameCover

\* A step that is no decision keeps the leaves of a class that has rows or is
\* being marked by somebody else.
LEMMA CoverKept ==
  ASSUME RowsFit, "session" \notin overlapped, NEW h \in Handlers, Step(h), ~CommitDecision(h), NEW s \in Sessions
  PROVE  /\ leaves' = leaves
         /\ HasRows(s) \/ ~FlushSession(h) \/ s # job[h].session => SameCover(s)
<1>1. CASE FlushSession(h)
  BY <1>1, FlushEffect DEF FlushSession, SameClass, SameCover
<1>2. CASE CommitMark(h)
  <2>1. CommitAlone(h)
    BY <1>2, CommitEffect
  <2>2. SameCover(s)
    BY <2>1 DEF CommitAlone, SameCover
  <2> QED BY <1>2, <2>2 DEF CommitMark
<1>3. CASE UNCHANGED tables
  BY <1>3 DEF tables, SameCover
<1> QED BY <1>1, <1>2, <1>3, Writers

LEMMA ByDecision ==
  ASSUME LeavesFit, NEW h \in Handlers, CommitDecision(h), overlapped \cap {"session", "leave"} = {},
         NEW s \in Sessions, NEW st \in Students
  PROVE  /\ marks'[s][st] = "absent" => st \notin OnLeave(s)'
         /\ marks'[s][st] = "leave" => st \in OnLeave(s)'
<1> DEFINE l == job[h].leave
           op == job[h].op
           Through(k, q) == StudentOf[k] = st /\ q[k] = "effective" /\ Covers(k, s)
<1>1. At(h, "flip") /\ job[h] \in LeaveJobs /\ l \in Leaves /\ op \in {"approve", "revoke"}
  BY DEF LeavesFit, RowsFit, TypesFit, JobsFit, FitsAt, At, LeaveJobs, CommitDecision
<1>2. job[h].found = {r \in Sessions : /\ sessions[r].status = "completed" /\ Covers(l, r)
                                       /\ marks[r][StudentOf[l]] = From(op)}
  BY <1>1 DEF LeavesFit, AbsencesFit, FlipFits
<1>3. leaves' = [leaves EXCEPT ![l] = IF op = "approve" THEN "effective" ELSE "over"] /\ sessions' = sessions
  BY DEF CommitDecision
<1>4. leaves \in [Leaves -> {"pending", "effective", "over"}] /\ marks[s] \in [Students -> Submitted \cup {NoRow}]
  BY DEF LeavesFit, RowsFit, TypesFit, TablesFit
<1>5. marks'[s] = IF s \in job[h].found /\ marks[s][StudentOf[l]] = From(op)
                    THEN [marks[s] EXCEPT ![StudentOf[l]] = To(op)] ELSE marks[s]
  BY DEF CommitDecision
<1>6. st \in OnLeave(s) <=> \E k \in Leaves : Through(k, leaves)
  BY DEF OnLeave
<1>7. st \in OnLeave(s)' <=> \E k \in Leaves : Through(k, leaves')
  BY <1>3 DEF OnLeave, Covers
<1>8. MarksMatch(s, st)
  BY DEF LeavesFit, AbsencesFit
<1>9. marks[s][st] # NoRow => sessions[s].status = "completed"
  BY DEF LeavesFit, RowsFit, RowsOnlyOnHeldSessions
<1>10. s \in job[h].found <=> /\ sessions[s].status = "completed" /\ Covers(l, s)
                              /\ marks[s][StudentOf[l]] = From(op)
  BY <1>2
<1>11. \A k \in Leaves : k # l => leaves'[k] = leaves[k]
  BY <1>3
<1>12. CASE st # StudentOf[l]
  <2>1. marks'[s][st] = marks[s][st]
    BY <1>4, <1>5, <1>12
  <2>2. \A k \in Leaves : Through(k, leaves) <=> Through(k, leaves')
    BY <1>11, <1>12
  <2> HIDE DEF Through
  <2> QED BY <1>6, <1>7, <1>8, <2>1, <2>2 DEF MarksMatch
<1>13. CASE st = StudentOf[l] /\ op = "approve"
  <2>1. leaves'[l] = "effective"
    BY <1>1, <1>3, <1>4, <1>13
  <2>2. \A k \in Leaves : Through(k, leaves) => Through(k, leaves')
    BY <1>11, <2>1
  <2>3. CASE s \in job[h].found
    <3>1. marks[s][st] = "absent" /\ Covers(l, s)
      BY <1>10, <1>13, <2>3 DEF From
    <3>2. marks'[s][st] = "leave"
      BY <1>4, <1>5, <1>13, <2>3, <3>1 DEF From, To
    <3>3. Through(l, leaves')
      BY <1>13, <2>1, <3>1
    <3> QED BY <1>1, <1>7, <3>2, <3>3
  <2>4. CASE s \notin job[h].found
    <3>1. marks'[s][st] = marks[s][st]
      BY <1>5, <2>4
    <3>2. marks[s][st] = "absent" => ~Covers(l, s)
      BY <1>9, <1>10, <1>13, <2>4 DEF From, NoRow
    <3>3. \A k \in Leaves : marks[s][st] = "absent" /\ Through(k, leaves') => Through(k, leaves)
      BY <1>11, <3>2
    <3> HIDE DEF Through
    <3> QED BY <1>6, <1>7, <1>8, <2>2, <3>1, <3>3 DEF MarksMatch
  <2> QED BY <2>3, <2>4
<1>14. CASE st = StudentOf[l] /\ op = "revoke"
  <2>1. leaves'[l] = "over" /\ leaves[l] = "effective"
    BY <1>1, <1>3, <1>4, <1>14 DEF LeavesFit, DecisionsApart
  <2>2. \A k \in Leaves : Through(k, leaves') => Through(k, leaves) /\ k # l
    BY <1>11, <2>1
  <2>3. CASE s \in job[h].found
    <3>1. marks[s][st] = "leave" /\ Covers(l, s)
      BY <1>10, <1>14, <2>3 DEF From
    <3>2. marks'[s][st] = "absent"
      BY <1>4, <1>5, <1>14, <2>3, <3>1 DEF From, To
    <3>3. ASSUME NEW k \in Leaves, Through(k, leaves') PROVE FALSE
      <4>1. Disjoint(k, l)
        BY <1>1, <1>14, <2>1, <2>2, <3>3 DEF LeavesFit, DecisionsApart
      <4>2. sessions[s].slot \in RangeOf[k] /\ sessions[s].slot \in RangeOf[l]
        BY <3>1, <3>3 DEF Covers
      <4> QED BY <4>1, <4>2 DEF Disjoint
    <3> QED BY <1>7, <3>2, <3>3
  <2>4. CASE s \notin job[h].found
    <3>1. marks'[s][st] = marks[s][st]
      BY <1>5, <2>4
    <3>2. marks[s][st] = "leave" => ~Covers(l, s)
      BY <1>9, <1>10, <1>14, <2>4 DEF From, NoRow
    <3>3. \A k \in Leaves : marks[s][st] = "leave" /\ Through(k, leaves) => Through(k, leaves')
      BY <1>11, <3>2
    <3> HIDE DEF Through
    <3> QED BY <1>6, <1>7, <1>8, <2>2, <3>1, <3>3 DEF MarksMatch
  <2> QED BY <2>3, <2>4
<1> QED BY <1>1, <1>12, <1>13, <1>14

\* Other decisions find what they found.
LEMMA OtherFlips ==
  ASSUME LeavesFit, AttendanceNext, NEW h \in Handlers, Step(h), overlapped' \cap {"session", "leave"} = {},
         NEW g \in Handlers, g # h
  PROVE  FlipFits(g)'
<1>1. TypesFit /\ overlapped \cap {"session", "leave"} = {} /\ OverlapFits
  BY Remembers DEF LeavesFit, RowsFit, TypesFit
<1>2. pc'[g] = pc[g] /\ job'[g] = job[g]
  BY <1>1, Others
<1> SUFFICES ASSUME At(g, "flip") PROVE FlipFits(g)'
  BY <1>2 DEF FlipFits, At
<1> DEFINE l == job[g].leave
           st == StudentOf[l]
           f == From(job[g].op)
<1>3. /\ l \in Leaves /\ st \in Students /\ f # NoRow /\ job[g].found \subseteq Sessions
      /\ job[g].found = {s \in Sessions : sessions[s].status = "completed" /\ Covers(l, s) /\ marks[s][st] = f}
  <2>1. job[g] \in LeaveJobs
    BY <1>1 DEF TypesFit, JobsFit, FitsAt, At
  <2>2. l \in Leaves /\ st \in Students /\ f # NoRow /\ job[g].found \subseteq Sessions
    BY <2>1, LeaveAssumption DEF LeaveJobs, From, NoRow
  <2> QED BY <1>1, <2>2 DEF LeavesFit, AbsencesFit, FlipFits
<1>4. \A s \in Sessions : /\ marks'[s][st] = f <=> marks[s][st] = f
                          /\ marks[s][st] = f => /\ sessions'[s].status = sessions[s].status
                                                 /\ sessions'[s].slot = sessions[s].slot
  <2>1. CASE FlushSession(h)
    <3>1. marks' = marks
      BY <2>1 DEF FlushSession
    <3>2. \A s \in Sessions : marks[s][st] = f => HasRows(s)
      BY <1>3 DEF HasRows
    <3> HIDE DEF l, st, f
    <3> QED BY <1>1, <2>1, <3>1, <3>2, FlushEffect DEF SameClass, LeavesFit
  <2>2. CASE CommitMark(h)
    <3>1. Marking(h)
      BY <1>1, <2>2 DEF CommitMark, At, Marking, OnSession, TypesFit, JobsFit, FitsAt
    <3> QED BY <1>1, <3>1, Apart
  <2>3. CASE CommitDecision(h)
    <3>1. At(h, "flip")
      BY <2>3 DEF CommitDecision
    <3> DEFINE st0 == StudentOf[job[h].leave]
               Hit(s) == s \in job[h].found /\ marks[s][st0] = From(job[h].op)
    <3>2. st0 # st
      BY <3>1 DEF LeavesFit, DecisionsApart
    <3>3. \A s \in Sessions : marks[s] \in [Students -> Submitted \cup {NoRow}]
      BY <1>1 DEF TypesFit, TablesFit
    <3>4. \A s \in Sessions : marks'[s] = IF Hit(s) THEN [marks[s] EXCEPT ![st0] = To(job[h].op)] ELSE marks[s]
      BY <2>3 DEF CommitDecision
    <3> HIDE DEF st, f, st0, Hit
    <3>5. ASSUME NEW s \in Sessions PROVE marks'[s][st] = marks[s][st]
      <4>1. CASE Hit(s)
        BY <1>3, <3>2, <3>3, <3>4, <4>1
      <4>2. CASE ~Hit(s)
        BY <3>4, <4>2
      <4> QED BY <4>1, <4>2
    <3> QED BY <2>3, <3>5 DEF CommitDecision
  <2>4. CASE UNCHANGED tables
    BY <2>4 DEF tables
  <2> QED BY <2>1, <2>2, <2>3, <2>4, Writers
<1>5. job'[g].found = {s \in Sessions : /\ sessions'[s].status = "completed"
                                        /\ sessions'[s].status # "cancelled" /\ sessions'[s].slot \in RangeOf[l]
                                        /\ marks'[s][st] = f}
  <2> HIDE DEF l, st, f
  <2> QED BY <1>2, <1>3, <1>4 DEF Covers
<1> QED BY <1>2, <1>5 DEF FlipFits, Covers

LEMMA NewFlip ==
  ASSUME TypesFit, NEW h \in Handlers, Step(h)
  PROVE  FlipFits(h)'
<1>1. CASE Decides(h)
  <2>1. PICK l \in Leaves, op \in {"approve", "revoke"} : StartDecision(h, l, op)
    BY <1>1 DEF Decides
  <2>2. /\ job'[h].leave = l /\ job'[h].op = op /\ sessions' = sessions /\ marks' = marks
        /\ job'[h].found = {s \in Sessions : /\ sessions[s].status = "completed" /\ Covers(l, s)
                                             /\ marks[s][StudentOf[l]] = From(op)}
    BY <2>1 DEF StartDecision, Set, tables, TypesFit, JobsFit
  <2> QED BY <2>2 DEF FlipFits, Covers
<1>2. CASE ~Decides(h)
  BY <1>2, FlipsStay DEF FlipFits
<1> QED BY <1>1, <1>2

\* What a marking is about to write still agrees with the leaves it read.
LEMMA MarkingStays ==
  ASSUME LeavesFit, AttendanceNext, NEW h \in Handlers, Step(h), overlapped' \cap {"session", "leave"} = {},
         NEW g \in Handlers
  PROVE  MarkFits(g)'
<1>1. /\ TypesFit /\ RowsFit /\ overlapped \cap {"session", "leave"} = {} /\ "session" \notin overlapped
      /\ "leave" \notin overlapped /\ OverlapFits
  BY Remembers DEF LeavesFit, RowsFit, TypesFit
<1>2. TypesFit'
  BY <1>1, TypesStep
<1> SUFFICES ASSUME Marking(g)', pc'[g] # "leaves"
             PROVE  MatchesLeaves(job[g].session, job[g].target)'
  BY DEF MarkFits
<1> DEFINE s == job'[g].session
           target == job'[g].target
           Matches == \A st \in DOMAIN target : /\ target[st] = "absent" => st \notin OnLeave(s)
                                                /\ target[st] = "leave" => st \in OnLeave(s)
<1>3. s \in Sessions
  BY <1>2 DEF TypesFit, JobsFit, FitsAt, Marking, OnSession, SessionJobs
<1>4. g # h => /\ Marking(g) /\ MarkFits(g) /\ pc'[g] = pc[g] /\ job'[g] = job[g]
  BY <1>1, Others DEF Marking, OnSession, LeavesFit, AbsencesFit
<1>5. ~CommitDecision(h)
  <2>1. CASE g # h
    <3>1. CommitDecision(h) => At(h, "flip")
      BY DEF CommitDecision
    <3> QED BY <1>1, <1>4, <2>1, <3>1, Apart
  <2>2. CASE g = h
    BY <1>1, <2>2, Stops DEF Marking
  <2> QED BY <2>1, <2>2
<1>6. g = h => \/ ReadLeaves(h) \/ ReloadRows(h) \/ FlushRows(h) \/ ReloadSession(h) \/ Tally(h)
               \/ FlushSession(h) /\ job[h].op = "mark"
  <2>1. Starts(h) => pc'[h] = "leaves" \/ ~Marking(h)'
    <3>1. ASSUME NEW r \in Sessions, NEW op, NEW e, NEW label, Load(h, r, op, e, label)
          PROVE  job'[h].op = op /\ pc'[h] = label
      BY <1>1, <3>1 DEF Load, Goto, Set, TypesFit, JobsFit
    <3>2. ASSUME NEW r \in Sessions, StartMark(h, r) PROVE pc'[h] = "leaves"
      BY <3>1, <3>2 DEF StartMark
    <3>3. ASSUME NEW r \in Sessions, Cancel(h, r) \/ Uncancel(h, r) \/ \E slot \in Slots : Move(h, r, slot)
          PROVE  job'[h].op \in {"cancel", "uncancel", "move"}
      BY <3>1, <3>3 DEF Cancel, Uncancel, Move
    <3>4. ASSUME NEW r \in Sessions, NEW b \in Subjects, NEW t \in Teachers, EditSession(h, r, b, t)
          PROVE  job'[h].op = "edit"
      <4> DEFINE e == [sessions[r] EXCEPT !.subject = b, !.teacher = t]
      <4>1. Load(h, r, "edit", e, "reloadSession")
        BY <3>4 DEF EditSession
      <4> HIDE DEF e
      <4> QED BY <3>1, <4>1
    <3>5. ASSUME NEW r \in Sessions, NEW t \in Teachers, Substitute(h, r, t) PROVE job'[h].op = "substitute"
      BY <3>1, <3>5 DEF Substitute
    <3> QED BY <3>2, <3>3, <3>4, <3>5 DEF Starts, Marking
  <2>2. Marking(h)' => ~(\/ CommitMark(h) \/ Decides(h) \/ CommitDecision(h) \/ Fail(h)
                         \/ FlushSession(h) /\ job[h].op # "mark")
    BY <1>1, Stops DEF Marking
  <2> QED BY <2>1, <2>2, Steps
<1>7. /\ leaves' = leaves /\ SameCover(s)
  <2>1. HasRows(s) \/ ~FlushSession(h) \/ s # job[h].session => SameCover(s) /\ leaves' = leaves
    BY <1>1, <1>3, <1>5, CoverKept
  <2>2. CASE g # h
    <3>1. FlushSession(h) => OnSession(h)
      BY DEF FlushSession, At, OnSession
    <3>2. FlushSession(h) => s # job[h].session
      BY <1>1, <1>4, <2>2, <3>1, Apart DEF Marking
    <3> QED BY <2>1, <3>2
  <2>3. CASE g = h
    <3>1. FlushSession(h) => sessions' = sessions /\ leaves' = leaves
      BY <1>6, <2>3 DEF FlushSession, ReadLeaves, ReloadRows, FlushRows, ReloadSession, Tally, At
    <3> QED BY <2>1, <3>1 DEF SameCover
  <2> QED BY <2>2, <2>3
<1>8. Matches
  <2>1. CASE g # h
    BY <1>4, <2>1 DEF MarkFits, MatchesLeaves
  <2>2. CASE g = h
    <3>1. CASE ReadLeaves(h)
      <4>1. PICK t \in PartialFunctions(Students, Submitted) :
           /\ MatchesLeaves(job[h].session, t)
           /\ job' = [job EXCEPT ![h] = [job[h] EXCEPT
                        !.known = {st \in Students : marks[job[h].session][st] # NoRow},
                        !.target = t]]
        BY <3>1, ReadLeavesEffect
      <4>2. job[h] \in SessionJobs
        BY <1>1, <3>1 DEF TypesFit, JobsFit, FitsAt, ReadLeaves, At
      <4>3. s = job[h].session /\ target = t
        BY <1>1, <2>2, <4>1, <4>2 DEF TypesFit, JobsFit, SessionJobs
      <4> QED BY <4>1, <4>3 DEF MatchesLeaves
    <3>2. CASE \/ ReloadRows(h) \/ FlushRows(h) \/ ReloadSession(h) \/ Tally(h)
               \/ FlushSession(h) /\ job[h].op = "mark"
      <4>1. job[h] \in SessionJobs /\ pc[h] \notin {"idle", "flip", "leaves"}
        BY <1>1, <3>2 DEF TypesFit, JobsFit, FitsAt, ReloadRows, FlushRows, ReloadSession, Tally, FlushSession, At
      <4>2. job'[h].session = job[h].session /\ job'[h].target = job[h].target /\ job'[h].op = job[h].op
        BY <1>1, <3>2, <4>1 DEF ReloadRows, FlushRows, ReloadSession, Tally, FlushSession, Set, SessionJobs, TypesFit, JobsFit
      <4>3. Marking(h) /\ MarkFits(h)
        BY <1>1, <2>2, <4>1, <4>2 DEF Marking, OnSession, LeavesFit, AbsencesFit
      <4> QED BY <2>2, <4>1, <4>2, <4>3 DEF MarkFits, MatchesLeaves
    <3> QED BY <1>6, <2>2, <3>1, <3>2
  <2> QED BY <2>1, <2>2
<1>9. ASSUME NEW r, r = s PROVE OnLeave(r)' = OnLeave(r)
  <2>1. SameCover(r)
    BY <1>7, <1>9
  <2> QED BY <1>7, <2>1, OnLeaveKept
<1>10. PICK r : r = s
  OBVIOUS
<1>11. \A st \in DOMAIN target : /\ target[st] = "absent" => st \notin OnLeave(r)'
                                 /\ target[st] = "leave" => st \in OnLeave(r)'
  <2> HIDE DEF s, target
  <2> QED BY <1>8, <1>9, <1>10
<1>12. OnLeave(r)' = OnLeave(job[g].session)'
  BY <1>10 DEF OnLeave, Covers
<1> QED BY <1>11, <1>12 DEF MatchesLeaves

LEMMA MarksStep ==
  ASSUME LeavesFit, AttendanceNext, overlapped' \cap {"session", "leave"} = {},
         NEW s \in Sessions, NEW st \in Students
  PROVE  MarksMatch(s, st)'
<1>1. PICK h \in Handlers : Step(h)
  BY DEF AttendanceNext
<1>2. /\ TypesFit /\ RowsFit /\ overlapped \cap {"session", "leave"} = {} /\ "session" \notin overlapped
  BY Remembers DEF LeavesFit, RowsFit, TypesFit
<1>3. MarksMatch(s, st)
  BY <1>2 DEF LeavesFit, AbsencesFit
<1>4. CASE CommitDecision(h)
  BY <1>2, <1>4, ByDecision DEF MarksMatch
<1>5. CASE FlushSession(h)
  <2>1. marks' = marks /\ ~CommitDecision(h)
    BY <1>5 DEF FlushSession, CommitDecision, At
  <2>2. marks[s][st] # NoRow => OnLeave(s)' = OnLeave(s)
    BY <1>1, <1>2, <2>1, CoverKept, OnLeaveKept DEF HasRows
  <2> QED BY <1>3, <2>1, <2>2 DEF MarksMatch, NoRow
<1>6. CASE CommitMark(h)
  <2>1. CommitAlone(h)
    BY <1>2, <1>6, CommitEffect
  <2>2. OnLeave(s)' = OnLeave(s)
    <3>1. ~FlushSession(h) /\ ~CommitDecision(h)
      BY <1>6 DEF FlushSession, CommitDecision, CommitMark, At
    <3> QED BY <1>1, <1>2, <3>1, CoverKept, OnLeaveKept
  <2>3. Marking(h) /\ pc[h] = "commit" /\ job[h].written \subseteq DOMAIN job[h].target
    BY <1>2, <1>6 DEF TypesFit, JobsFit, FitsAt, CommitMark, At, Marking, OnSession
  <2>4. MatchesLeaves(job[h].session, job[h].target)
    BY <1>2, <2>3 DEF LeavesFit, AbsencesFit, MarkFits
  <2>5. CASE s = job[h].session /\ st \in job[h].written
    BY <2>1, <2>2, <2>3, <2>4, <2>5 DEF CommitAlone, MatchesLeaves, MarksMatch
  <2>6. CASE s # job[h].session \/ st \notin job[h].written
    BY <1>3, <2>1, <2>2, <2>6 DEF CommitAlone, MarksMatch
  <2> QED BY <2>5, <2>6
<1>7. CASE UNCHANGED tables
  BY <1>3, <1>7 DEF tables, MarksMatch, OnLeave, Covers
<1> QED BY <1>1, <1>4, <1>5, <1>6, <1>7, Writers

LEMMA LeavesStep == ASSUME LeavesFit, AttendanceNext PROVE LeavesFit'
<1>1. RowsFit'
  BY RowsStep DEF LeavesFit
<1>2. DecisionsApart'
  BY DecisionsStep DEF LeavesFit, RowsFit
<1>3. PICK h \in Handlers : Step(h)
  BY DEF AttendanceNext
<1>4. ASSUME overlapped' \cap {"session", "leave"} = {}, NEW g \in Handlers PROVE MarkFits(g)' /\ FlipFits(g)'
  <2>1. MarkFits(g)'
    BY <1>3, <1>4, MarkingStays
  <2>2. CASE g = h
    BY <1>3, <2>1, <2>2, NewFlip DEF LeavesFit, RowsFit
  <2>3. CASE g # h
    BY <1>3, <1>4, <2>1, <2>3, OtherFlips
  <2> QED BY <2>2, <2>3
<1>5. AbsencesFit'
  BY <1>4, MarksStep DEF AbsencesFit
<1> QED BY <1>1, <1>2, <1>5 DEF LeavesFit

LEMMA LeavesInit == AttendanceInit => LeavesFit
<1> SUFFICES ASSUME AttendanceInit PROVE LeavesFit
  OBVIOUS
<1>1. \A h \in Handlers : ~At(h, "flip") /\ ~Marking(h)
  BY DEF AttendanceInit, At, Marking, OnSession
<1>2. DecisionsApart
  BY <1>1 DEF DecisionsApart, AttendanceInit
<1>3. AbsencesFit
  BY <1>1 DEF AbsencesFit, MarkFits, FlipFits, MarksMatch, AttendanceInit, NoRow
<1> QED BY <1>2, <1>3, RowsInit DEF LeavesFit

LEMMA LeavesStutter == ASSUME LeavesFit, UNCHANGED attendanceVars PROVE LeavesFit'
<1>1. /\ sessions' = sessions /\ marks' = marks /\ leaves' = leaves
      /\ pc' = pc /\ job' = job /\ overlapped' = overlapped
  BY DEF attendanceVars
<1>2. RowsFit'
  BY RowsStutter DEF LeavesFit
<1>3. DecisionsApart'
  BY <1>1 DEF LeavesFit, DecisionsApart, Disjoint, At
<1>4. AbsencesFit'
  BY <1>1 DEF LeavesFit, AbsencesFit, MarkFits, FlipFits, MarksMatch, MatchesLeaves, OnLeave, Covers, Marking, OnSession, At
<1> QED BY <1>2, <1>3, <1>4 DEF LeavesFit

LEMMA LeavesInvariant == AttendanceSpec => []LeavesFit
<1>1. LeavesFit /\ [AttendanceNext]_attendanceVars => LeavesFit'
  BY LeavesStep, LeavesStutter
<1> QED BY <1>1, LeavesInit, PTL DEF AttendanceSpec

\* On a held session a student is absent only outside an effective leave and on
\* leave only inside one, as long as no decision falls between a marking's read
\* of the leaves and its commit (mark, LeaveAttendanceSyncService).
THEOREM AbsencesFollowLeaves == AttendanceSpec => []AbsencesMatchLeaves
<1>1. LeavesFit => AbsencesMatchLeaves
  BY DEF LeavesFit, AbsencesFit, MarksMatch, AbsencesMatchLeaves
<1> QED BY <1>1, LeavesInvariant, PTL

-----------------------------------------------------------------------------
(* The rollup is the projection of the rows *)

PresentBy(st, b) == {s \in HeldBy(st, b) : marks[s][st] = "present"}

RollupMatches(st, b) ==
  rollup[st][b] = [held |-> Cardinality(HeldBy(st, b)), attended |-> Cardinality(PresentBy(st, b))]

\* The rows a marking counts: the committed ones and its own.
HeldSeen(h, st) == {s \in Sessions : /\ SessionSeen(h, s).status = "completed"
                                     /\ SessionSeen(h, s).subject = job[h].entity.subject
                                     /\ MarkSeen(h, s, st) # NoRow}
PresentSeen(h, st) == {s \in HeldSeen(h, st) : MarkSeen(h, s, st) = "present"}

\* Until it commits, what a marking has counted is still what it would count.
TallyFits(h) ==
  pc[h] = "commit" => \A st \in DOMAIN job[h].target :
    job[h].tally[st] = [held |-> Cardinality(HeldSeen(h, st)),
                        attended |-> Cardinality(PresentSeen(h, st))]

RollupFits ==
  overlapped \subseteq {"leave"} =>
    /\ \A h \in Handlers : TallyFits(h)
    /\ \A st \in Students, b \in Subjects : RollupMatches(st, b)

RollupInv == RowsFit /\ RollupFits

\* What no step but a marking's commit does: give or take a row, or a presence, or
\* make a session with rows another class.
KeepsRows ==
  \A s \in Sessions, st \in Students :
    /\ marks'[s][st] = NoRow <=> marks[s][st] = NoRow
    /\ marks'[s][st] = "present" <=> marks[s][st] = "present"
    /\ marks[s][st] # NoRow => /\ sessions'[s].status = sessions[s].status
                               /\ sessions'[s].subject = sessions[s].subject

LEMMA RowsKept ==
  ASSUME RowsFit, "session" \notin overlapped, NEW h \in Handlers, Step(h), ~CommitMark(h)
  PROVE  KeepsRows /\ rollup' = rollup
<1>1. CASE FlushSession(h)
  <2>1. marks' = marks /\ rollup' = rollup
    BY <1>1 DEF FlushSession
  <2> QED BY <1>1, <2>1, FlushEffect DEF KeepsRows, HasRows, SameClass
<1>2. CASE CommitDecision(h)
  <2>1. sessions' = sessions /\ rollup' = rollup
    BY <1>2 DEF CommitDecision
  <2> QED BY <1>2, <2>1, DecisionEffect DEF KeepsRows, NoRow, RowsFit
<1>3. CASE UNCHANGED tables
  BY <1>3 DEF tables, KeepsRows
<1> QED BY <1>1, <1>2, <1>3, Writers

LEMMA RollupKept ==
  ASSUME KeepsRows, rollup' = rollup, NEW st \in Students, NEW b \in Subjects, RollupMatches(st, b)
  PROVE  RollupMatches(st, b)'
<1>1. HeldBy(st, b)' = HeldBy(st, b)
  BY DEF KeepsRows, HeldBy
<1>2. PresentBy(st, b)' = PresentBy(st, b)
  BY <1>1 DEF KeepsRows, PresentBy, HeldBy
<1> QED BY <1>1, <1>2 DEF RollupMatches

\* While one marking stands before its commit, other transactions do not change
\* what it counted.
LEMMA TallyStays ==
  ASSUME RowsFit, overlapped \subseteq {"leave"}, NEW h \in Handlers, Step(h),
         NEW g \in Handlers, g # h, pc[g] = "commit", TallyFits(g)
  PROVE  TallyFits(g)'
<1>1. /\ TypesFit /\ "session" \notin overlapped /\ "rollup" \notin overlapped
  BY DEF RowsFit
<1>2. pc'[g] = pc[g] /\ job'[g] = job[g]
  BY <1>1, Others
<1>3. /\ OnSession(g) /\ Marking(g) /\ job[g] \in SessionJobs /\ job[g].written \subseteq DOMAIN job[g].target
      /\ DOMAIN job[g].target \subseteq Students
  <2>1. OnSession(g) /\ Marking(g) /\ job[g] \in SessionJobs /\ job[g].written \subseteq DOMAIN job[g].target
    BY <1>1 DEF TypesFit, JobsFit, FitsAt, Marking, OnSession
  <2> QED BY <2>1 DEF SessionJobs, PartialFunctions
<1>4. ~CommitMark(h)
  <2>1. CommitMark(h) => Marking(h) /\ OnSession(h)
    BY <1>1 DEF TypesFit, JobsFit, FitsAt, Marking, OnSession, CommitMark, At
  <2> QED BY <1>1, <1>3, <2>1, Apart DEF TypesFit
<1>5. KeepsRows
  BY <1>1, <1>4, RowsKept
<1> DEFINE s == job[g].session
<1>6. sessions'[s] = sessions[s]
  BY <1>1, <1>3, OthersSession
<1>7. Flushed(g)' = Flushed(g)
  BY <1>2, <1>6 DEF Flushed
<1>8. ASSUME NEW r \in Sessions, NEW st \in Students
      PROVE  /\ MarkSeen(g, r, st)' = NoRow <=> MarkSeen(g, r, st) = NoRow
             /\ MarkSeen(g, r, st)' = "present" <=> MarkSeen(g, r, st) = "present"
             /\ MarkSeen(g, r, st) # NoRow =>
                  /\ SessionSeen(g, r)'.status = SessionSeen(g, r).status
                  /\ SessionSeen(g, r)'.subject = SessionSeen(g, r).subject
  <2>1. CASE r = s
    <3>1. SessionSeen(g, r)' = SessionSeen(g, r)
      BY <1>2, <1>6, <1>7, <2>1 DEF SessionSeen
    <3>2. MarkSeen(g, r, st) = IF st \in job[g].written THEN job[g].target[st] ELSE marks[r][st]
      BY <2>1 DEF MarkSeen
    <3>3. MarkSeen(g, r, st)' = IF st \in job[g].written THEN job[g].target[st] ELSE marks'[r][st]
      BY <1>2, <2>1 DEF MarkSeen
    <3> QED BY <1>5, <3>1, <3>2, <3>3 DEF KeepsRows
  <2>2. CASE r # s
    <3>1. SessionSeen(g, r) = sessions[r] /\ SessionSeen(g, r)' = sessions'[r]
      BY <1>2, <2>2 DEF SessionSeen
    <3>2. MarkSeen(g, r, st) = marks[r][st] /\ MarkSeen(g, r, st)' = marks'[r][st]
      BY <1>2, <2>2 DEF MarkSeen
    <3> QED BY <1>5, <3>1, <3>2 DEF KeepsRows
  <2> QED BY <2>1, <2>2
<1>9. ASSUME NEW st \in Students
      PROVE  HeldSeen(g, st)' = HeldSeen(g, st) /\ PresentSeen(g, st)' = PresentSeen(g, st)
  <2>1. HeldSeen(g, st)' = HeldSeen(g, st)
    BY <1>2, <1>8 DEF HeldSeen
  <2>2. PresentSeen(g, st)' = PresentSeen(g, st)
    BY <1>8, <2>1 DEF PresentSeen, HeldSeen
  <2> QED BY <2>1, <2>2
<1> QED BY <1>2, <1>3, <1>9 DEF TallyFits

LEMMA TallyNow ==
  ASSUME TypesFit, NEW h \in Handlers, Step(h)
  PROVE  TallyFits(h)'
<1>1. CASE Tally(h)
  <2> DEFINE tally == [st \in DOMAIN job[h].target |->
                         [held |-> Cardinality(HeldSeen(h, st)), attended |-> Cardinality(PresentSeen(h, st))]]
  <2>1. job' = [job EXCEPT ![h] = [job[h] EXCEPT !.tally = tally]] /\ sessions' = sessions /\ marks' = marks
    BY <1>1 DEF Tally, Set, tables, HeldSeen, PresentSeen
  <2>2. job[h] \in SessionJobs
    BY <1>1 DEF TypesFit, JobsFit, FitsAt, Tally, At
  <2>3. /\ job'[h].tally = tally /\ job'[h].target = job[h].target /\ job'[h].session = job[h].session
        /\ job'[h].op = job[h].op /\ job'[h].entity = job[h].entity /\ job'[h].dirty = job[h].dirty
        /\ job'[h].written = job[h].written
    <3> HIDE DEF tally
    <3> QED BY <2>1, <2>2 DEF TypesFit, JobsFit, SessionJobs
  <2>4. Flushed(h)' = Flushed(h)
    BY <2>1, <2>3 DEF Flushed
  <2>5. ASSUME NEW st PROVE HeldSeen(h, st)' = HeldSeen(h, st) /\ PresentSeen(h, st)' = PresentSeen(h, st)
    <3>1. \A s : SessionSeen(h, s)' = SessionSeen(h, s) /\ MarkSeen(h, s, st)' = MarkSeen(h, s, st)
      BY <2>1, <2>3, <2>4 DEF SessionSeen, MarkSeen
    <3> QED BY <2>3, <3>1 DEF HeldSeen, PresentSeen
  <2> QED BY <2>3, <2>5 DEF TallyFits
<1>2. CASE ~Tally(h)
  <2>1. pc'[h] # "commit"
    <3> USE DEF TypesFit, JobsFit, Goto, Set, Finish
    <3>1. CASE Starts(h)
      BY <3>1 DEF Starts, Cancel, Uncancel, StartMark, EditSession, Move, Substitute, Load
    <3>2. CASE ReadLeaves(h)
      BY <3>2 DEF ReadLeaves
    <3>3. CASE ReloadRows(h) \/ FlushRows(h) \/ ReloadSession(h)
      BY <3>3 DEF ReloadRows, FlushRows, ReloadSession
    <3>4. CASE FlushSession(h) \/ CommitMark(h) \/ CommitDecision(h) \/ Fail(h)
      BY <3>4 DEF FlushSession, CommitMark, CommitDecision, Fail
    <3>5. CASE Decides(h)
      BY <3>5 DEF Decides, StartDecision
    <3> QED BY <1>2, <3>1, <3>2, <3>3, <3>4, <3>5, Steps
  <2> QED BY <2>1 DEF TallyFits
<1> QED BY <1>1, <1>2

\* A marking's commit makes the rollup of its students and its subject the
\* projection of the rows, and leaves the others what they were.
LEMMA RollupAtCommit ==
  ASSUME RowsFit, overlapped \subseteq {"leave"}, NEW h \in Handlers, CommitMark(h), TallyFits(h),
         NEW st \in Students, NEW b \in Subjects, RollupMatches(st, b)
  PROVE  RollupMatches(st, b)'
<1> DEFINE j == job[h]
           s == job[h].session
           b0 == job[h].entity.subject
<1>1. /\ TypesFit /\ "session" \notin overlapped /\ pc[h] = "commit" /\ j \in SessionJobs
      /\ DOMAIN j.tally = DOMAIN j.target /\ j.written \subseteq DOMAIN j.target /\ j.op \in {"mark", "amend"}
  BY DEF RowsFit, TypesFit, JobsFit, FitsAt, CommitMark, At
<1>2. /\ s \in Sessions /\ b0 \in Subjects /\ \A q \in DOMAIN j.target : j.target[q] \in Submitted
      /\ \A q \in DOMAIN j.target : j.tally[q] \in Counts
  <2>1. s \in Sessions /\ b0 \in Subjects /\ j.target \in PartialFunctions(Students, Submitted)
        /\ j.tally \in PartialFunctions(Students, Counts)
    BY <1>1 DEF SessionJobs, Session
  <2> HIDE DEF j
  <2> QED BY <1>1, <2>1 DEF PartialFunctions
<1>3. CommitAlone(h)
  BY <1>1, CommitEffect
<1>4. \A r \in Sessions : /\ r # s => sessions'[r] = sessions[r] /\ marks'[r] = marks[r]
                          /\ sessions'[r] = SessionSeen(h, r) /\ marks'[r][st] = MarkSeen(h, r, st)
  <2>1. \A r \in Sessions : r # s => sessions'[r] = sessions[r] /\ marks'[r] = marks[r]
    BY <1>3 DEF CommitAlone
  <2>2. sessions'[s] = SessionSeen(h, s) /\ marks'[s][st] = MarkSeen(h, s, st)
    BY <1>1, <1>2 DEF CommitMark, TypesFit, TablesFit
  <2>3. \A r \in Sessions : r # s => SessionSeen(h, r) = sessions[r] /\ MarkSeen(h, r, st) = marks[r][st]
    BY DEF SessionSeen, MarkSeen
  <2> QED BY <2>1, <2>2, <2>3
<1>5. rollup'[st] = IF st \in DOMAIN j.tally /\ j.tally[st].held > 0
                      THEN [rollup[st] EXCEPT ![b0] = j.tally[st]] ELSE rollup[st]
  BY DEF CommitMark
<1>6. rollup[st] \in [Subjects -> Counts]
  BY <1>1 DEF TypesFit, TablesFit
<1>7. CASE b # b0 \/ st \notin DOMAIN j.target
  <2>1. rollup'[st][b] = rollup[st][b]
    <3>1. CASE st \notin DOMAIN j.target
      BY <1>1, <1>5, <3>1
    <3>2. CASE b # b0
      BY <1>5, <1>6, <3>2
    <3> QED BY <1>7, <3>1, <3>2
  <2>2. \A r \in Sessions : r # s => /\ r \in HeldBy(st, b)' <=> r \in HeldBy(st, b)
                                     /\ marks'[r][st] = marks[r][st]
    BY <1>4 DEF HeldBy
  <2>3. /\ s \in HeldBy(st, b)' <=> s \in HeldBy(st, b)
        /\ s \in HeldBy(st, b) => marks'[s][st] = marks[s][st]
    <3>1. CASE b # b0
      <4>1. s \notin HeldBy(st, b)' /\ s \notin HeldBy(st, b)
        BY <1>3, <3>1 DEF CommitAlone, HeldBy
      <4> QED BY <4>1
    <3>2. CASE st \notin DOMAIN j.target
      <4>1. marks'[s][st] = marks[s][st]
        BY <1>1, <1>3, <3>2 DEF CommitAlone
      <4>2. CASE j.op = "mark"
        <5>1. marks[s][st] = NoRow
          BY <1>3, <4>2 DEF CommitAlone, HasRows
        <5> QED BY <4>1, <5>1 DEF HeldBy
      <4>3. CASE j.op = "amend"
        BY <1>3, <4>1, <4>3 DEF CommitAlone, HeldBy
      <4> QED BY <1>1, <4>1, <4>2, <4>3
    <3> QED BY <1>7, <3>1, <3>2
  <2>4. HeldBy(st, b)' \subseteq Sessions /\ HeldBy(st, b) \subseteq Sessions
    BY DEF HeldBy
  <2>5. HeldBy(st, b)' = HeldBy(st, b)
    <3>1. ASSUME NEW r \in Sessions PROVE r \in HeldBy(st, b)' <=> r \in HeldBy(st, b)
      <4>1. CASE r # s
        BY <2>2, <4>1
      <4>2. CASE r = s
        BY <2>3, <4>2
      <4> QED BY <4>1, <4>2
    <3> DEFINE new == HeldBy(st, b)'
               old == HeldBy(st, b)
    <3>2. /\ \A r \in Sessions : r \in new <=> r \in old
          /\ new \subseteq Sessions /\ old \subseteq Sessions
      BY <2>4, <3>1
    <3> HIDE DEF new, old
    <3>3. new = old
      BY <3>2
    <3> QED BY <3>3 DEF new, old
  <2>6. PresentBy(st, b)' = PresentBy(st, b)
    BY <2>2, <2>3, <2>4, <2>5 DEF PresentBy
  <2> QED BY <2>1, <2>5, <2>6 DEF RollupMatches
<1>8. CASE b = b0 /\ st \in DOMAIN j.target
  <2>1. HeldBy(st, b)' = HeldSeen(h, st)
    BY <1>4, <1>8 DEF HeldBy, HeldSeen
  <2>2. PresentBy(st, b)' = PresentSeen(h, st)
    BY <1>4, <2>1 DEF PresentBy, PresentSeen, HeldSeen
  <2>3. j.tally[st] = [held |-> Cardinality(HeldSeen(h, st)), attended |-> Cardinality(PresentSeen(h, st))]
    BY <1>1, <1>8 DEF TallyFits
  <2>4. CASE j.tally[st].held > 0
    <3>1. rollup'[st][b] = j.tally[st]
      BY <1>1, <1>5, <1>6, <1>8, <2>4
    <3> QED BY <2>1, <2>2, <2>3, <3>1 DEF RollupMatches
  <2>5. CASE ~(j.tally[st].held > 0)
    <3>1. rollup'[st] = rollup[st]
      BY <1>5, <2>5
    <3>2. HeldSeen(h, st) = {}
      <4>1. IsFiniteSet(HeldSeen(h, st))
        <5>1. HeldSeen(h, st) \in SUBSET Sessions
          BY DEF HeldSeen
        <5> QED BY <5>1, SessionAssumption, FS_Subset
      <4>2. Cardinality(HeldSeen(h, st)) \in Nat
        BY <4>1, FS_CardinalityType
      <4>3. Cardinality(HeldSeen(h, st)) = 0
        BY <2>3, <2>5, <4>2
      <4> QED BY <4>1, <4>3, FS_EmptySet
    <3>3. HeldBy(st, b) \subseteq HeldBy(st, b)'
      <4>1. ASSUME NEW r \in Sessions, r \in HeldBy(st, b) PROVE r \in HeldBy(st, b)'
        <5>1. CASE r # s
          BY <1>4, <4>1, <5>1 DEF HeldBy
        <5>2. CASE r = s
          <6>1. /\ sessions[s].subject = b /\ marks[s][st] # NoRow
            BY <4>1, <5>2 DEF HeldBy
          <6>2. marks'[s][st] # NoRow
            BY <1>1, <1>2, <1>3, <6>1 DEF CommitAlone, Submitted, NoRow
          <6> QED BY <1>3, <5>2, <6>1, <6>2 DEF CommitAlone, HeldBy
        <5> QED BY <5>1, <5>2
      <4> QED BY <4>1 DEF HeldBy
    <3>4. HeldBy(st, b) = {} /\ HeldBy(st, b)' = {}
      BY <2>1, <3>2, <3>3
    <3>5. PresentBy(st, b) = {} /\ PresentBy(st, b)' = {}
      BY <3>4 DEF PresentBy
    <3> QED BY <3>1, <3>4, <3>5 DEF RollupMatches
  <2> QED BY <2>4, <2>5
<1> QED BY <1>7, <1>8

LEMMA RollupStep == ASSUME RollupInv, AttendanceNext PROVE RollupInv'
<1>1. RowsFit /\ TypesFit /\ RowsFit'
  BY RowsStep DEF RollupInv, RowsFit
<1>2. PICK h \in Handlers : Step(h)
  BY DEF AttendanceNext
<1> SUFFICES ASSUME overlapped' \subseteq {"leave"}
             PROVE  /\ \A g \in Handlers : TallyFits(g)'
                    /\ \A st \in Students, b \in Subjects : RollupMatches(st, b)'
  BY <1>1 DEF RollupInv, RollupFits
<1>3. overlapped \subseteq {"leave"} /\ "session" \notin overlapped
  BY Remembers
<1>4. /\ \A g \in Handlers : TallyFits(g)
      /\ \A st \in Students, b \in Subjects : RollupMatches(st, b)
  BY <1>3 DEF RollupInv, RollupFits
<1>5. ASSUME NEW g \in Handlers PROVE TallyFits(g)'
  <2>1. CASE g = h
    BY <1>1, <1>2, <2>1, TallyNow
  <2>2. CASE g # h /\ pc[g] = "commit"
    BY <1>1, <1>2, <1>3, <1>4, <2>2, TallyStays
  <2>3. CASE g # h /\ pc[g] # "commit"
    <3>1. pc'[g] # "commit"
      BY <1>1, <1>2, <2>3, Others
    <3> QED BY <3>1 DEF TallyFits
  <2> QED BY <2>1, <2>2, <2>3
<1>6. ASSUME NEW st \in Students, NEW b \in Subjects PROVE RollupMatches(st, b)'
  <2>1. CASE CommitMark(h)
    BY <1>1, <1>3, <1>4, <2>1, RollupAtCommit
  <2>2. CASE ~CommitMark(h)
    <3>1. KeepsRows /\ rollup' = rollup
      BY <1>1, <1>2, <1>3, <2>2, RowsKept
    <3> QED BY <1>4, <3>1, RollupKept
  <2> QED BY <2>1, <2>2
<1> QED BY <1>5, <1>6

LEMMA RollupInit == AttendanceInit => RollupInv
<1> SUFFICES ASSUME AttendanceInit PROVE RollupInv
  OBVIOUS
<1>1. \A h \in Handlers : TallyFits(h)
  BY DEF AttendanceInit, TallyFits
<1>2. ASSUME NEW st \in Students, NEW b \in Subjects PROVE RollupMatches(st, b)
  <2>1. HeldBy(st, b) = {}
    BY DEF AttendanceInit, HeldBy
  <2>2. PresentBy(st, b) = {}
    BY <2>1 DEF PresentBy
  <2>3. Cardinality({}) = 0
    BY FS_EmptySet
  <2>4. rollup[st][b] = [held |-> 0, attended |-> 0]
    BY DEF AttendanceInit
  <2> QED BY <2>1, <2>2, <2>3, <2>4 DEF RollupMatches
<1> QED BY <1>1, <1>2, RowsInit DEF RollupInv, RollupFits

LEMMA RollupStutter == ASSUME RollupInv, UNCHANGED attendanceVars PROVE RollupInv'
<1>1. /\ sessions' = sessions /\ marks' = marks /\ rollup' = rollup
      /\ pc' = pc /\ job' = job /\ overlapped' = overlapped
  BY DEF attendanceVars
<1>2. RowsFit'
  BY RowsStutter DEF RollupInv
<1>3. ASSUME NEW h \in Handlers PROVE TallyFits(h)' <=> TallyFits(h)
  BY <1>1 DEF TallyFits, HeldSeen, PresentSeen, SessionSeen, MarkSeen, Flushed
<1>4. ASSUME NEW st \in Students, NEW b \in Subjects PROVE RollupMatches(st, b)' <=> RollupMatches(st, b)
  BY <1>1 DEF RollupMatches, HeldBy, PresentBy
<1> QED BY <1>1, <1>2, <1>3, <1>4 DEF RollupInv, RollupFits

LEMMA RollupInvariant == AttendanceSpec => []RollupInv
<1>1. RollupInv /\ [AttendanceNext]_attendanceVars => RollupInv'
  BY RollupStep, RollupStutter
<1> QED BY <1>1, RollupInit, PTL DEF AttendanceSpec

\* The rollup is the projection of the attendance rows as long as no two markings
\* overlap and no two transactions work on one session, whatever leave decisions
\* fall in between (recomputeRollup).
THEOREM RollupFollowsRows == AttendanceSpec => []RollupIsProjection
<1>1. RollupInv => RollupIsProjection
  BY DEF RollupInv, RollupFits, RollupMatches, PresentBy, RollupIsProjection
<1> QED BY <1>1, RollupInvariant, PTL

-----------------------------------------------------------------------------
(* File exports *)

RowType == [status : Statuses \cup {"absent", "purged"}, key : BOOLEAN, stale : BOOLEAN,
            due : BOOLEAN, old : BOOLEAN]

\* A worker's job has a row that it alone may finish, and nobody purges; a file
\* is there before it is claimed to be.
WorkersFit ==
  \A j \in Jobs :
    /\ worker[j] # "none" => /\ row[j].status \in Statuses \ {"ready"}
                             /\ told[j] = "nothing" /\ ~row[j].old
    /\ worker[j] = "finish" => j \in stored

\* What the sweep has found is overdue and nobody else's.
SweepFits ==
  /\ sweep.step # "expire" => sweep.found = {}
  /\ \A j \in sweep.found : row[j].status = "ready" /\ row[j].due

\* As long as no worker is late, a row looks abandoned only when it is.
StaleFits ==
  "late" \notin trouble =>
    \A j \in Jobs : row[j].stale => worker[j] = "none"

\* The inductive invariant.
ExportIInv == ExportInv /\ ToldStands /\ WorkersFit /\ SweepFits /\ StaleFits

\* No row, no file and no worker at first.
LEMMA ExportInit_IInv == ExportInit => ExportIInv
  BY DEF ExportInit, ExportIInv, ExportInv, ExportTypeOK, DownloadsFindTheirFile, NoFileLeaks,
         Downloadable, ToldStands, WorkersFit, SweepFits, StaleFits, Absent, Asleep, Statuses, Active

\* The conjuncts of the invariant that speak of rows.
Consistent == /\ \A j \in Jobs : row[j].status = "ready" => row[j].key
              /\ DownloadsFindTheirFile /\ NoFileLeaks /\ ToldStands
              /\ WorkersFit /\ SweepFits /\ StaleFits

Typed ==
  /\ row \in [Jobs -> RowType] /\ stored \subseteq Jobs
  /\ worker \in [Jobs -> {"none", "begin", "generate", "upload", "finish", "fail"}]
  /\ told \in [Jobs -> {"nothing", "ready", "failed"}]
  /\ creator \in [Creators -> {"count", "insert"}]
  /\ sweep \in [step : {"asleep", "expire", "recover", "purge"}, found : SUBSET Jobs]
  /\ trouble \subseteq {"creates", "late", "crash", "write", "delete"}

\* The invariant, split into what types the variables and what relates them.
LEMMA Parts == ExportIInv <=> Typed /\ Consistent
  BY DEF ExportIInv, ExportInv, ExportTypeOK, Typed, Consistent, RowType

\* A statement that rewrites one row leaves the others as they are.
LEMMA OneRow ==
  ASSUME row \in [Jobs -> RowType], NEW j \in Jobs, NEW STATE r, r \in RowType,
         row' = [row EXCEPT ![j] = r]
  PROVE  /\ row' \in [Jobs -> RowType] /\ row'[j] = r
         /\ \A i \in Jobs \ {j} : row'[i] = row[i]
  OBVIOUS

\* A statement of a worker (ExportJobsService.run).
LEMMA StepRun ==
  ASSUME Typed, Consistent, NEW j \in Jobs, Run(j) PROVE Typed' /\ Consistent'
<1> USE DEF Typed, Consistent, DownloadsFindTheirFile, NoFileLeaks, Downloadable, ToldStands,
            WorkersFit, SweepFits, StaleFits, Statuses, Active, Work
<1>0. row[j] \in RowType
  OBVIOUS
<1>1. CASE MarkProcessing(j)
  <2> DEFINE r == [row[j] EXCEPT !.status = "processing", !.stale = FALSE]
  <2>1. /\ r \in RowType /\ r.status = "processing" /\ ~r.stale
        /\ r.key = row[j].key /\ r.due = row[j].due /\ r.old = row[j].old
    BY <1>0 DEF RowType
  <2>2. row' = [row EXCEPT ![j] = r]
    BY <1>1 DEF MarkProcessing, Update
  <2> HIDE DEF r
  <2>3. /\ row' \in [Jobs -> RowType] /\ row'[j] = r
        /\ \A i \in Jobs \ {j} : row'[i] = row[i]
    BY <2>1, <2>2, OneRow
  <2>4. Typed'
    BY <1>1, <2>1, <2>3 DEF MarkProcessing
  <2>5. \A i \in Jobs : row'[i].status = "ready" => row'[i].key
    BY <1>1, <2>1, <2>3 DEF MarkProcessing
  <2>6. DownloadsFindTheirFile'
    BY <1>1, <2>1, <2>3 DEF MarkProcessing
  <2>7. NoFileLeaks'
    BY <1>1, <2>1, <2>3 DEF MarkProcessing
  <2>8. ToldStands'
    BY <1>1, <2>1, <2>3 DEF MarkProcessing
  <2>9. WorkersFit'
    BY <1>1, <2>1, <2>3 DEF MarkProcessing
  <2>10. SweepFits'
    BY <1>1, <2>1, <2>3 DEF MarkProcessing
  <2>11. StaleFits'
    BY <1>1, <2>1, <2>3 DEF MarkProcessing
  <2> QED BY <2>4, <2>5, <2>6, <2>7, <2>8, <2>9, <2>10, <2>11
<1>2. CASE Generate(j)
  BY <1>2 DEF Generate
<1>3. CASE Upload(j)
  BY <1>3 DEF Upload
<1>4. CASE MarkReady(j)
  <2> DEFINE r == ReadyFields(j)
  <2>1. /\ r \in RowType /\ r.status = "ready" /\ ~r.stale /\ r.key /\ ~r.due
        /\ r.old = row[j].old
    BY <1>0 DEF RowType, ReadyFields
  <2>2. row' = [row EXCEPT ![j] = r]
    BY <1>4 DEF MarkReady, Update
  <2> HIDE DEF r
  <2>3. /\ row' \in [Jobs -> RowType] /\ row'[j] = r
        /\ \A i \in Jobs \ {j} : row'[i] = row[i]
    BY <2>1, <2>2, OneRow
  <2>4. Typed'
    BY <1>4, <2>1, <2>3 DEF MarkReady
  <2>5. \A i \in Jobs : row'[i].status = "ready" => row'[i].key
    BY <1>4, <2>1, <2>3 DEF MarkReady
  <2>6. DownloadsFindTheirFile'
    BY <1>4, <2>1, <2>3 DEF MarkReady
  <2>7. NoFileLeaks'
    BY <1>4, <2>1, <2>3 DEF MarkReady
  <2>8. ToldStands'
    BY <1>4, <2>1, <2>3 DEF MarkReady
  <2>9. WorkersFit'
    BY <1>4, <2>1, <2>3 DEF MarkReady
  <2>10. SweepFits'
    BY <1>4, <2>1, <2>3 DEF MarkReady
  <2>11. StaleFits'
    BY <1>4, <2>1, <2>3 DEF MarkReady
  <2> QED BY <2>4, <2>5, <2>6, <2>7, <2>8, <2>9, <2>10, <2>11
<1>5. CASE MissReady(j)
  BY <1>5 DEF MissReady
<1>6. CASE MarkFailed(j)
  <2> DEFINE r == [row[j] EXCEPT !.status = "failed", !.stale = FALSE]
  <2>1. /\ r \in RowType /\ r.status = "failed" /\ ~r.stale
        /\ r.key = row[j].key /\ r.due = row[j].due /\ r.old = row[j].old
    BY <1>0 DEF RowType
  <2>2. row' = [row EXCEPT ![j] = r]
    BY <1>6 DEF MarkFailed, Update
  <2> HIDE DEF r
  <2>3. /\ row' \in [Jobs -> RowType] /\ row'[j] = r
        /\ \A i \in Jobs \ {j} : row'[i] = row[i]
    BY <2>1, <2>2, OneRow
  <2>4. Typed'
    BY <1>6, <2>1, <2>3 DEF MarkFailed
  <2>5. \A i \in Jobs : row'[i].status = "ready" => row'[i].key
    BY <1>6, <2>1, <2>3 DEF MarkFailed
  <2>6. DownloadsFindTheirFile'
    BY <1>6, <2>1, <2>3 DEF MarkFailed
  <2>7. NoFileLeaks'
    BY <1>6, <2>1, <2>3 DEF MarkFailed
  <2>8. ToldStands'
    BY <1>6, <2>1, <2>3 DEF MarkFailed
  <2>9. WorkersFit'
    BY <1>6, <2>1, <2>3 DEF MarkFailed
  <2>10. SweepFits'
    BY <1>6, <2>1, <2>3 DEF MarkFailed
  <2>11. StaleFits'
    BY <1>6, <2>1, <2>3 DEF MarkFailed
  <2> QED BY <2>4, <2>5, <2>6, <2>7, <2>8, <2>9, <2>10, <2>11
<1>7. CASE LoseWorker(j)
  BY <1>7 DEF LoseWorker
<1> QED BY <1>1, <1>2, <1>3, <1>4, <1>5, <1>6, <1>7 DEF Run

\* A row is inserted and its worker let go (create).
LEMMA StepCreate ==
  ASSUME Typed, Consistent, NEW c \in Creators, NEW j \in Jobs, InsertJob(c, j)
  PROVE  Typed' /\ Consistent'
<1> USE DEF Typed, Consistent, DownloadsFindTheirFile, NoFileLeaks, Downloadable, ToldStands,
            WorkersFit, SweepFits, StaleFits, Statuses, Active, Work
<1>0. row[j] \in RowType
  OBVIOUS
<1>1. InsertJob(c, j)
  OBVIOUS
<1> QED
  <2> DEFINE r == [Absent EXCEPT !.status = "pending"]
  <2>1. /\ r \in RowType /\ r.status = "pending" /\ ~r.key /\ ~r.stale /\ ~r.due /\ ~r.old
    BY <1>0, <1>1 DEF InsertJob, RowType, Absent
  <2>2. row' = [row EXCEPT ![j] = r]
    BY <1>1 DEF InsertJob
  <2> HIDE DEF r
  <2>3. /\ row' \in [Jobs -> RowType] /\ row'[j] = r
        /\ \A i \in Jobs \ {j} : row'[i] = row[i]
    BY <2>1, <2>2, OneRow
  <2>20. row[j].status = "absent" /\ j \notin sweep.found /\ told[j] = "nothing"
    BY <1>1 DEF InsertJob, Absent
  <2>21. /\ worker' = [worker EXCEPT ![j] = "begin"] /\ creator' = [creator EXCEPT ![c] = "count"]
         /\ UNCHANGED <<stored, told, sweep, trouble>>
    BY <1>1 DEF InsertJob
  <2>4. Typed'
    BY <2>1, <2>3, <2>20, <2>21
  <2>5. \A i \in Jobs : row'[i].status = "ready" => row'[i].key
    BY <2>1, <2>3, <2>20, <2>21
  <2>6. DownloadsFindTheirFile'
    BY <2>1, <2>3, <2>20, <2>21
  <2>7. NoFileLeaks'
    BY <2>1, <2>3, <2>20, <2>21
  <2>8. ToldStands'
    BY <2>1, <2>3, <2>20, <2>21
  <2>9. WorkersFit'
    BY <2>1, <2>3, <2>20, <2>21
  <2>10. SweepFits'
    BY <2>1, <2>3, <2>20, <2>21
  <2>11. StaleFits'
    BY <2>1, <2>3, <2>20, <2>21
  <2> QED BY <2>4, <2>5, <2>6, <2>7, <2>8, <2>9, <2>10, <2>11

\* Time passes for one row.
LEMMA StepTime ==
  ASSUME Typed, Consistent, NEW j \in Jobs, GrowStale(j) \/ FallDue(j) \/ GrowOld(j)
  PROVE  Typed' /\ Consistent'
<1> USE DEF Typed, Consistent, DownloadsFindTheirFile, NoFileLeaks, Downloadable, ToldStands,
            WorkersFit, SweepFits, StaleFits, Statuses, Active
<1>0. row[j] \in RowType
  OBVIOUS
<1>1. CASE GrowStale(j)
  <2> DEFINE r == [row[j] EXCEPT !.stale = TRUE]
  <2>1. /\ r \in RowType /\ r.status = row[j].status /\ r.stale
        /\ r.key = row[j].key /\ r.due = row[j].due /\ r.old = row[j].old
    BY <1>0, <1>1 DEF GrowStale, RowType
  <2>2. row' = [row EXCEPT ![j] = r]
    BY <1>1 DEF GrowStale
  <2> HIDE DEF r
  <2>3. /\ row' \in [Jobs -> RowType] /\ row'[j] = r
        /\ \A i \in Jobs \ {j} : row'[i] = row[i]
    BY <2>1, <2>2, OneRow
  <2>4. Typed'
    BY <1>1, <2>1, <2>3 DEF GrowStale
  <2>5. \A i \in Jobs : row'[i].status = "ready" => row'[i].key
    BY <1>1, <2>1, <2>3 DEF GrowStale
  <2>6. DownloadsFindTheirFile'
    BY <1>1, <2>1, <2>3 DEF GrowStale
  <2>7. NoFileLeaks'
    BY <1>1, <2>1, <2>3 DEF GrowStale
  <2>8. ToldStands'
    BY <1>1, <2>1, <2>3 DEF GrowStale
  <2>9. WorkersFit'
    BY <1>1, <2>1, <2>3 DEF GrowStale
  <2>10. SweepFits'
    BY <1>1, <2>1, <2>3 DEF GrowStale
  <2>11. StaleFits'
    BY <1>1, <2>1, <2>3 DEF GrowStale
  <2> QED BY <2>4, <2>5, <2>6, <2>7, <2>8, <2>9, <2>10, <2>11
<1>2. CASE FallDue(j)
  <2> DEFINE r == [row[j] EXCEPT !.due = TRUE]
  <2>1. /\ r \in RowType /\ r.status = row[j].status /\ r.due
        /\ r.key = row[j].key /\ r.stale = row[j].stale /\ r.old = row[j].old
    BY <1>0, <1>2 DEF FallDue, RowType
  <2>2. row' = [row EXCEPT ![j] = r]
    BY <1>2 DEF FallDue
  <2> HIDE DEF r
  <2>3. /\ row' \in [Jobs -> RowType] /\ row'[j] = r
        /\ \A i \in Jobs \ {j} : row'[i] = row[i]
    BY <2>1, <2>2, OneRow
  <2>4. Typed'
    BY <1>2, <2>1, <2>3 DEF FallDue
  <2>5. \A i \in Jobs : row'[i].status = "ready" => row'[i].key
    BY <1>2, <2>1, <2>3 DEF FallDue
  <2>6. DownloadsFindTheirFile'
    BY <1>2, <2>1, <2>3 DEF FallDue
  <2>7. NoFileLeaks'
    BY <1>2, <2>1, <2>3 DEF FallDue
  <2>8. ToldStands'
    BY <1>2, <2>1, <2>3 DEF FallDue
  <2>9. WorkersFit'
    BY <1>2, <2>1, <2>3 DEF FallDue
  <2>10. SweepFits'
    BY <1>2, <2>1, <2>3 DEF FallDue
  <2>11. StaleFits'
    BY <1>2, <2>1, <2>3 DEF FallDue
  <2> QED BY <2>4, <2>5, <2>6, <2>7, <2>8, <2>9, <2>10, <2>11
<1>3. CASE GrowOld(j)
  <2> DEFINE r == [row[j] EXCEPT !.old = TRUE]
  <2>1. /\ r \in RowType /\ r.status = row[j].status /\ r.old
        /\ r.key = row[j].key /\ r.due = row[j].due /\ r.stale = row[j].stale
    BY <1>0, <1>3 DEF GrowOld, RowType
  <2>2. row' = [row EXCEPT ![j] = r]
    BY <1>3 DEF GrowOld
  <2> HIDE DEF r
  <2>3. /\ row' \in [Jobs -> RowType] /\ row'[j] = r
        /\ \A i \in Jobs \ {j} : row'[i] = row[i]
    BY <2>1, <2>2, OneRow
  <2>4. Typed'
    BY <1>3, <2>1, <2>3 DEF GrowOld
  <2>5. \A i \in Jobs : row'[i].status = "ready" => row'[i].key
    BY <1>3, <2>1, <2>3 DEF GrowOld
  <2>6. DownloadsFindTheirFile'
    BY <1>3, <2>1, <2>3 DEF GrowOld
  <2>7. NoFileLeaks'
    BY <1>3, <2>1, <2>3 DEF GrowOld
  <2>8. ToldStands'
    BY <1>3, <2>1, <2>3 DEF GrowOld
  <2>9. WorkersFit'
    BY <1>3, <2>1, <2>3 DEF GrowOld
  <2>10. SweepFits'
    BY <1>3, <2>1, <2>3 DEF GrowOld
  <2>11. StaleFits'
    BY <1>3, <2>1, <2>3 DEF GrowOld
  <2> QED BY <2>4, <2>5, <2>6, <2>7, <2>8, <2>9, <2>10, <2>11
<1> QED BY <1>1, <1>2, <1>3

\* The sweep removes or expires one file (ExportCleanupService.sweep).
LEMMA StepSweepOne ==
  ASSUME Typed, Consistent, NEW j \in Jobs, DeleteObject(j) \/ MarkExpired(j)
  PROVE  Typed' /\ Consistent'
<1> USE DEF Typed, Consistent, DownloadsFindTheirFile, NoFileLeaks, Downloadable, ToldStands,
            WorkersFit, SweepFits, StaleFits, Statuses, Active
<1>0. row[j] \in RowType
  OBVIOUS
<1>1. ASSUME DeleteObject(j), stored' # stored PROVE Typed' /\ Consistent'
  <2>1. /\ row[j].due /\ row[j].status = "ready" /\ stored' = stored \ {j} /\ worker[j] = "none"
        /\ UNCHANGED <<row, worker, told, creator, sweep, trouble>>
    BY <1>1 DEF DeleteObject
  <2>4. Typed'
    BY <2>1
  <2>5. \A i \in Jobs : row'[i].status = "ready" => row'[i].key
    BY <2>1
  <2>6. DownloadsFindTheirFile'
    BY <2>1
  <2>7. NoFileLeaks'
    BY <2>1
  <2>8. ToldStands'
    BY <2>1
  <2>9. WorkersFit'
    BY <2>1
  <2>10. SweepFits'
    BY <2>1
  <2>11. StaleFits'
    BY <2>1
  <2> QED BY <2>4, <2>5, <2>6, <2>7, <2>8, <2>9, <2>10, <2>11
<1>2. ASSUME MarkExpired(j) \/ (DeleteObject(j) /\ stored' = stored) PROVE Typed' /\ Consistent'
  <2> DEFINE r == [row[j] EXCEPT !.status = "expired", !.stale = FALSE]
  <2>1. /\ r \in RowType /\ r.status = "expired" /\ ~r.stale
        /\ r.key = row[j].key /\ r.due = row[j].due /\ r.old = row[j].old
    BY <1>0, <1>2 DEF MarkExpired, DeleteObject, Update, RowType
  <2>2. row' = [row EXCEPT ![j] = r]
    BY <1>2 DEF MarkExpired, DeleteObject, Update
  <2> HIDE DEF r
  <2>3. /\ row' \in [Jobs -> RowType] /\ row'[j] = r
        /\ \A i \in Jobs \ {j} : row'[i] = row[i]
    BY <2>1, <2>2, OneRow
  <2>20. /\ row[j].status = "ready" /\ row[j].due /\ sweep.step = "expire"
         /\ sweep' = [sweep EXCEPT !.found = @ \ {j}]
         /\ trouble' = trouble \cup {"delete"} \/ (trouble' = trouble /\ j \notin stored)
         /\ UNCHANGED <<stored, worker, told, creator>>
    BY <1>2 DEF MarkExpired, DeleteObject
  <2>4. Typed'
    BY <2>1, <2>3, <2>20
  <2>5. \A i \in Jobs : row'[i].status = "ready" => row'[i].key
    BY <2>1, <2>3, <2>20
  <2>6. DownloadsFindTheirFile'
    BY <2>1, <2>3, <2>20
  <2>7. NoFileLeaks'
    BY <2>1, <2>3, <2>20
  <2>8. ToldStands'
    BY <2>1, <2>3, <2>20
  <2>9. WorkersFit'
    BY <2>1, <2>3, <2>20
  <2>10. SweepFits'
    BY <2>1, <2>3, <2>20
  <2>11. StaleFits'
    BY <2>1, <2>3, <2>20
  <2> QED BY <2>4, <2>5, <2>6, <2>7, <2>8, <2>9, <2>10, <2>11
<1> QED BY <1>1, <1>2

\* The statements of the sweep that concern every row.
LEMMA StepSweepAll ==
  ASSUME Typed, Consistent, StartSweep \/ ExpiredAll \/ FailOrphans \/ Purge
  PROVE  Typed' /\ Consistent'
<1> USE DEF Typed, Consistent, DownloadsFindTheirFile, NoFileLeaks, Downloadable, ToldStands,
            WorkersFit, SweepFits, StaleFits, Statuses, Active
<1>1. CASE StartSweep
  BY <1>1 DEF StartSweep, Overdue
<1>2. CASE ExpiredAll
  BY <1>2 DEF ExpiredAll
<1>3. CASE FailOrphans
  <2> DEFINE Failed(j) == [row[j] EXCEPT !.status = "failed", !.stale = FALSE]
  <2>1. ASSUME NEW j \in Jobs
        PROVE  /\ Failed(j) \in RowType /\ Failed(j).status = "failed" /\ ~Failed(j).stale
               /\ Failed(j).old = row[j].old
    <3>1. row[j] \in RowType
      BY <2>1
    <3> QED BY <3>1 DEF RowType
  <2> HIDE DEF Failed
  <2>2. row' = [j \in Jobs |-> IF j \in Orphans THEN Failed(j) ELSE row[j]]
    BY <1>3 DEF FailOrphans, Failed
  <2>20. row' \in [Jobs -> RowType]
    BY <2>1, <2>2
  <2>3. \A j \in Jobs : \/ row'[j] = row[j]
                        \/ /\ row[j].status \in Active /\ row[j].stale
                           /\ row'[j].status = "failed" /\ ~row'[j].stale
                           /\ row'[j].old = row[j].old
    BY <2>1, <2>2 DEF Orphans, In
  <2>21. /\ sweep.found = {} /\ sweep' = [sweep EXCEPT !.step = "purge"]
         /\ UNCHANGED <<stored, worker, told, creator, trouble>>
    BY <1>3 DEF FailOrphans
  <2>4. Typed'
    BY <2>20, <2>3, <2>21
  <2>5. \A i \in Jobs : row'[i].status = "ready" => row'[i].key
    BY <2>20, <2>3, <2>21
  <2>6. DownloadsFindTheirFile'
    BY <2>20, <2>3, <2>21
  <2>7. NoFileLeaks'
    BY <2>20, <2>3, <2>21
  <2>8. ToldStands'
    BY <2>20, <2>3, <2>21
  <2>9. WorkersFit'
    BY <2>20, <2>3, <2>21
  <2>10. SweepFits'
    BY <2>20, <2>3, <2>21
  <2>11. StaleFits'
    BY <2>20, <2>3, <2>21
  <2> QED BY <2>4, <2>5, <2>6, <2>7, <2>8, <2>9, <2>10, <2>11
<1>4. CASE Purge
  <2>1. row' \in [Jobs -> RowType]
    <3>1. [Absent EXCEPT !.status = "purged"] \in RowType
      BY DEF Absent, RowType
    <3>2. row' = [j \in Jobs |-> IF Purgeable(j) THEN [Absent EXCEPT !.status = "purged"] ELSE row[j]]
      BY <1>4 DEF Purge
    <3>3. \A j \in Jobs : row[j] \in RowType
      BY DEF WorkersFit
    <3> QED BY <3>1, <3>2, <3>3
  <2>2. \A j \in Jobs : \/ row'[j] = row[j]
                        \/ /\ row[j].status \in {"expired", "failed"} /\ row[j].old
                           /\ row'[j].status = "purged" /\ ~row'[j].stale
    BY <1>4 DEF Purge, Purgeable, Absent
  <2>3. sweep' = Asleep /\ UNCHANGED <<stored, worker, told, creator, trouble>>
    BY <1>4 DEF Purge
  <2>4. Typed'
    BY <2>1, <2>2, <2>3 DEF Asleep
  <2>5. \A i \in Jobs : row'[i].status = "ready" => row'[i].key
    BY <2>1, <2>2, <2>3 DEF Asleep
  <2>6. DownloadsFindTheirFile'
    BY <2>1, <2>2, <2>3 DEF Asleep
  <2>7. NoFileLeaks'
    BY <2>1, <2>2, <2>3 DEF Asleep
  <2>8. ToldStands'
    BY <2>1, <2>2, <2>3 DEF Asleep
  <2>9. WorkersFit'
    BY <2>1, <2>2, <2>3 DEF Asleep
  <2>10. SweepFits'
    BY <2>1, <2>2, <2>3 DEF Asleep
  <2>11. StaleFits'
    BY <2>1, <2>2, <2>3 DEF Asleep
  <2> QED BY <2>4, <2>5, <2>6, <2>7, <2>8, <2>9, <2>10, <2>11
<1> QED BY <1>1, <1>2, <1>3, <1>4

\* Every step keeps the invariant.
LEMMA StepExports == ExportIInv /\ [ExportNext]_exportVars => ExportIInv'
<1> SUFFICES ASSUME Typed, Consistent, [ExportNext]_exportVars PROVE Typed' /\ Consistent'
  BY Parts, PTL
<1> USE DEF Typed, Consistent, DownloadsFindTheirFile, NoFileLeaks, Downloadable, ToldStands,
            WorkersFit, SweepFits, StaleFits, Statuses, Active
<1>1. ASSUME NEW c \in Creators, CountActive(c) PROVE Typed' /\ Consistent'
  BY <1>1 DEF CountActive
<1>2. CASE Crash
  BY <1>2 DEF Crash, Asleep
<1>3. CASE UNCHANGED exportVars
  BY <1>3 DEF exportVars
<1> QED
  BY <1>1, <1>2, <1>3, StepCreate, StepRun, StepTime, StepSweepOne, StepSweepAll DEF ExportNext, Cleanup

\* It holds of every reachable state.
LEMMA ExportsInvariant == ExportSpec => []ExportIInv
  BY ExportInit_IInv, StepExports, PTL DEF ExportSpec

\* Whoever gets a download link gets a file, and no file outlives its row but
\* for a fault or a late worker, for any number of jobs and requests.
THEOREM ExportsSound == ExportSpec => []ExportInv
  BY ExportsInvariant, PTL DEF ExportIInv

\* What an employee was told of an export is never contradicted, whatever the
\* sweep and a worker that comes back do (run, sweep).
THEOREM ToldStandsAlways == ExportSpec => []ToldStands
  BY ExportsInvariant, PTL DEF ExportIInv

-----------------------------------------------------------------------------
(* The limit *)

\* Whoever still works on a job works on one that is under way.
WorkersActive ==
  "late" \notin trouble => \A j \in Jobs : worker[j] # "none" => row[j].status \in Active

\* A request that has counted is alone, and there is room for what it inserts.
RoomIsKept ==
  trouble \cap {"creates", "late"} = {} =>
    \A c \in Creators : creator[c] = "insert" =>
      /\ Room
      /\ \A d \in Creators : creator[d] = "insert" => d = c

LimitIInv == ExportIInv /\ WorkersActive /\ RoomIsKept /\ WithinActiveLimit

\* The jobs under way can be counted.
LEMMA ActiveFinite == IsFiniteSet(In(Active)) /\ Cardinality(In(Active)) \in Nat
  BY FS_Subset, FS_CardinalityType, ExportAssumption DEF In

\* What went wrong is not forgotten.
LEMMA TroubleStays == ExportIInv /\ [ExportNext]_exportVars => trouble \subseteq trouble'
  BY DEF ExportNext, exportVars, CountActive, InsertJob, Run, MarkProcessing, Generate, Upload,
         MarkReady, MissReady, MarkFailed, LoseWorker, GrowStale, FallDue, GrowOld, Cleanup, StartSweep,
         ExpiredAll, FailOrphans, Purge, DeleteObject, MarkExpired, Crash

\* Only an insert brings a job under way, and only a count lets one happen.
LEMMA Shrinks ==
  ASSUME Typed, Consistent, WorkersActive, [ExportNext]_exportVars,
         "late" \notin trouble,
         \A c \in Creators : ~CountActive(c) /\ \A j \in Jobs : ~InsertJob(c, j)
  PROVE  /\ In(Active)' \subseteq In(Active)
         /\ \A c \in Creators : creator'[c] = "insert" => creator[c] = "insert"
<1> USE DEF Typed, In
<1>1. ASSUME NEW j \in Jobs, Run(j) PROVE In(Active)' \subseteq In(Active) /\ creator' = creator
  BY <1>1 DEF Run, MarkProcessing, Generate, Upload, MarkReady, MissReady, MarkFailed, LoseWorker,
              Update, ReadyFields, Active, RowType, Statuses, WorkersActive
<1>2. ASSUME NEW j \in Jobs, GrowStale(j) \/ FallDue(j) \/ GrowOld(j)
      PROVE In(Active)' \subseteq In(Active) /\ creator' = creator
  BY <1>2 DEF GrowStale, FallDue, GrowOld, RowType
<1>3. CASE Cleanup
  <2>1. ASSUME NEW j \in Jobs, DeleteObject(j) \/ MarkExpired(j)
        PROVE In(Active)' \subseteq In(Active) /\ creator' = creator
    <3>1. row[j] \in RowType
      BY <2>1
    <3>2. [row[j] EXCEPT !.status = "expired", !.stale = FALSE].status = "expired"
      BY <3>1 DEF RowType
    <3>3. \A i \in Jobs : row'[i].status = "expired" \/ row'[i] = row[i]
      BY <2>1, <3>2 DEF DeleteObject, MarkExpired, Update
    <3>4. creator' = creator
      BY <2>1 DEF DeleteObject, MarkExpired
    <3> QED BY <3>3, <3>4 DEF Active
  <2>2. CASE FailOrphans
    <3>1. ASSUME NEW i \in Jobs PROVE [row[i] EXCEPT !.status = "failed", !.stale = FALSE].status = "failed"
      <4>1. row[i] \in RowType
        BY <3>1
      <4> QED BY <4>1 DEF RowType
    <3>2. \A i \in Jobs : row'[i].status = "failed" \/ row'[i] = row[i]
      <4>1. ASSUME NEW i \in Jobs, i \in Orphans PROVE row'[i].status = "failed"
        <5>1. row'[i] = [row[i] EXCEPT !.status = "failed", !.stale = FALSE]
          BY <2>2, <4>1 DEF FailOrphans
        <5> QED BY <3>1, <5>1
      <4>2. ASSUME NEW i \in Jobs, i \notin Orphans PROVE row'[i] = row[i]
        BY <2>2, <4>2 DEF FailOrphans
      <4> QED BY <4>1, <4>2
    <3> QED BY <2>2, <3>2 DEF FailOrphans, Active
  <2>3. CASE Purge
    <3>1. \A i \in Jobs : row'[i].status = "purged" \/ row'[i] = row[i]
      BY <2>3 DEF Purge, Absent
    <3> QED BY <2>3, <3>1 DEF Purge, Active
  <2>4. CASE StartSweep \/ ExpiredAll
    BY <2>4 DEF StartSweep, ExpiredAll
  <2> QED BY <1>3, <2>1, <2>2, <2>3, <2>4 DEF Cleanup
<1>4. CASE Crash
  BY <1>4 DEF Crash
<1>5. CASE UNCHANGED exportVars
  BY <1>5 DEF exportVars
<1> QED BY <1>1, <1>2, <1>3, <1>4, <1>5 DEF ExportNext

\* Counting, then inserting, keeps the limit.
LEMMA StepLimit == LimitIInv /\ [ExportNext]_exportVars => LimitIInv'
<1> SUFFICES ASSUME LimitIInv, [ExportNext]_exportVars PROVE LimitIInv'
  OBVIOUS
<1>1. /\ ExportIInv /\ WorkersActive /\ RoomIsKept /\ WithinActiveLimit
      /\ Typed /\ Consistent /\ ExportIInv'
  BY StepExports, Parts DEF LimitIInv
<1>2. trouble \subseteq trouble'
  BY <1>1, TroubleStays
<1>3. Typed' /\ Consistent'
  BY <1>1, Parts, PTL
<1>4. WorkersActive'
  <2> SUFFICES ASSUME "late" \notin trouble'
               PROVE  \A i \in Jobs : worker'[i] # "none" => row'[i].status \in Active
    BY DEF WorkersActive
  <2>0. /\ \A i \in Jobs : worker[i] # "none" => row[i].status \in Active /\ ~row[i].stale
        /\ Typed /\ SweepFits
    BY <1>1, <1>2 DEF WorkersActive, Consistent, StaleFits
  <2> USE DEF Typed
  <2>1. ASSUME NEW c \in Creators, CountActive(c) \/ \E j \in Jobs : InsertJob(c, j)
        PROVE  \A i \in Jobs : worker'[i] # "none" => row'[i].status \in Active
    BY <2>0, <2>1 DEF CountActive, InsertJob, Work, Active, Absent
  <2>2. ASSUME NEW j \in Jobs, Run(j)
        PROVE  \A i \in Jobs : worker'[i] # "none" => row'[i].status \in Active
    <3>1. CASE MarkProcessing(j)
      <4>1. row[j] \in RowType /\ row[j].status \in Active
        BY <2>0, <3>1 DEF MarkProcessing
      <4>2. [row[j] EXCEPT !.status = "processing", !.stale = FALSE].status = "processing"
        BY <4>1 DEF RowType
      <4>3. \A i \in Jobs : row'[i] = row[i] \/ row'[i].status = "processing"
        BY <3>1, <4>2 DEF MarkProcessing, Update
      <4>4. worker[j] # "none" /\ worker' = [worker EXCEPT ![j] = "generate"]
        BY <3>1 DEF MarkProcessing, Work
      <4>5. ASSUME NEW i \in Jobs, worker'[i] # "none" PROVE worker[i] # "none"
        BY <2>0, <4>4, <4>5
      <4> QED BY <2>0, <4>3, <4>5 DEF Active
    <3>2. CASE Generate(j) \/ Upload(j) \/ MissReady(j) \/ LoseWorker(j)
      BY <2>0, <3>2 DEF Generate, Upload, MissReady, LoseWorker, Work
    <3>3. CASE MarkReady(j) \/ MarkFailed(j)
      <4>1. worker' = [worker EXCEPT ![j] = "none"]
        BY <3>3 DEF MarkReady, MarkFailed, Work
      <4>2. ASSUME NEW STATE r, Update(j, r) PROVE \A i \in Jobs \ {j} : row'[i] = row[i]
        BY <4>2 DEF Update
      <4>3. \A i \in Jobs \ {j} : row'[i] = row[i]
        BY <3>3, <4>2 DEF MarkReady, MarkFailed
      <4> QED BY <2>0, <4>1, <4>3
    <3> QED BY <2>2, <3>1, <3>2, <3>3 DEF Run
  <2>3. ASSUME NEW j \in Jobs, GrowStale(j) \/ FallDue(j) \/ GrowOld(j)
        PROVE  \A i \in Jobs : worker'[i] # "none" => row'[i].status \in Active
    BY <2>0, <2>3 DEF GrowStale, FallDue, GrowOld, RowType
  <2>4. ASSUME NEW j \in Jobs, DeleteObject(j) \/ MarkExpired(j)
        PROVE  \A i \in Jobs : worker'[i] # "none" => row'[i].status \in Active
    BY <2>0, <2>4 DEF DeleteObject, MarkExpired, Update, SweepFits, Active
  <2>5. CASE StartSweep \/ ExpiredAll \/ Crash \/ UNCHANGED exportVars
    BY <2>0, <2>5 DEF StartSweep, ExpiredAll, Crash, exportVars
  <2>6. CASE FailOrphans
    BY <2>0, <2>6 DEF FailOrphans, Orphans
  <2>7. CASE Purge
    BY <2>0, <2>7 DEF Purge, Purgeable, Active
  <2> QED BY <2>1, <2>2, <2>3, <2>4, <2>5, <2>6, <2>7 DEF ExportNext, Cleanup
<1>5. RoomIsKept' /\ WithinActiveLimit'
  <2> SUFFICES ASSUME trouble' \cap {"creates", "late"} = {} PROVE RoomIsKept' /\ WithinActiveLimit'
    BY DEF RoomIsKept, WithinActiveLimit
  <2>1. /\ \A c \in Creators : creator[c] = "insert" =>
             /\ Cardinality(In(Active)) < MaxActive
             /\ \A d \in Creators : creator[d] = "insert" => d = c
        /\ Cardinality(In(Active)) <= MaxActive
        /\ "late" \notin trouble
    BY <1>1, <1>2 DEF RoomIsKept, WithinActiveLimit, Room
  <2>2. IsFiniteSet(In(Active)) /\ Cardinality(In(Active)) \in Nat /\ MaxActive \in Nat
    BY ActiveFinite, ExportAssumption
  <2>3. ASSUME NEW c \in Creators, CountActive(c) PROVE RoomIsKept' /\ WithinActiveLimit'
    <3>1. /\ Room /\ row' = row /\ creator' = [creator EXCEPT ![c] = "insert"]
          /\ \A d \in Creators : creator[d] # "insert"
      BY <2>3 DEF CountActive
    <3>2. In(Active)' = In(Active)
      BY <3>1 DEF In
    <3> QED BY <2>1, <3>1, <3>2, <1>1 DEF RoomIsKept, WithinActiveLimit, Room, Typed
  <2>4. ASSUME NEW c \in Creators, NEW j \in Jobs, InsertJob(c, j)
        PROVE  RoomIsKept' /\ WithinActiveLimit'
    <3>1. /\ creator[c] = "insert" /\ creator' = [creator EXCEPT ![c] = "count"]
          /\ row' = [row EXCEPT ![j] = [Absent EXCEPT !.status = "pending"]]
      BY <2>4 DEF InsertJob
    <3>2. In(Active)' \subseteq In(Active) \cup {j}
      BY <3>1, <1>1 DEF In, Typed
    <3>3. Cardinality(In(Active) \cup {j}) <= MaxActive /\ IsFiniteSet(In(Active) \cup {j})
      <4>1. /\ IsFiniteSet(In(Active) \cup {j})
            /\ Cardinality(In(Active) \cup {j}) = IF j \in In(Active) THEN Cardinality(In(Active))
                                                  ELSE Cardinality(In(Active)) + 1
        BY <2>2, FS_AddElement
      <4>2. Cardinality(In(Active)) < MaxActive
        BY <2>1, <3>1
      <4> QED BY <2>2, <4>1, <4>2
    <3>4. Cardinality(In(Active)') <= MaxActive
      BY <2>2, <3>2, <3>3, FS_Subset, FS_CardinalityType
    <3>5. \A d \in Creators : creator'[d] # "insert"
      BY <2>1, <3>1, <1>1 DEF Typed
    <3> QED BY <3>4, <3>5 DEF RoomIsKept, WithinActiveLimit
  <2>5. ASSUME \A c \in Creators : ~CountActive(c) /\ \A j \in Jobs : ~InsertJob(c, j)
        PROVE  RoomIsKept' /\ WithinActiveLimit'
    <3>1. /\ In(Active)' \subseteq In(Active)
          /\ \A c \in Creators : creator'[c] = "insert" => creator[c] = "insert"
      BY <1>1, <2>1, <2>5, Shrinks
    <3>2. Cardinality(In(Active)') <= Cardinality(In(Active)) /\ Cardinality(In(Active)') \in Nat
      BY <2>2, <3>1, FS_Subset, FS_CardinalityType
    <3> QED BY <2>1, <2>2, <3>1, <3>2 DEF RoomIsKept, WithinActiveLimit, Room
  <2> QED BY <2>3, <2>4, <2>5
<1> QED BY <1>1, <1>4, <1>5 DEF LimitIInv

\* No job is under way at first.
LEMMA ExportInit_LimitIInv == ExportInit => LimitIInv
<1> SUFFICES ASSUME ExportInit PROVE LimitIInv
  OBVIOUS
<1>1. ExportIInv
  BY ExportInit_IInv
<1>2. In(Active) = {}
  BY DEF ExportInit, In, Active, Absent
<1>3. Cardinality(In(Active)) <= MaxActive
  BY <1>2, FS_EmptySet, ExportAssumption
<1>4. WorkersActive /\ RoomIsKept
  BY DEF ExportInit, WorkersActive, RoomIsKept
<1> QED BY <1>1, <1>3, <1>4 DEF LimitIInv, WithinActiveLimit

\* The limit holds for every limit and every number of requests, but for two
\* that counted before either inserted and for a worker that comes back (create).
THEOREM ActiveLimitHolds == ExportSpec => []WithinActiveLimit
<1>1. LimitIInv => WithinActiveLimit
  BY DEF LimitIInv
<1> QED BY <1>1, ExportInit_LimitIInv, StepLimit, PTL DEF ExportSpec
=============================================================================
