----------------------- MODULE ApprovalRequests_proofs -----------------------
(***************************************************************************)
(* Theorems about the approval-request framework, for every number of      *)
(* handlers, requests, requesters and payloads.                            *)
(***************************************************************************)
EXTENDS ApprovalRequests, SequenceTheorems, TLAPS

\* The fields a job has are those of its operation.
LEMMA JobFields ==
  ASSUME NEW j \in Jobs
  PROVE  /\ j.op \in {"create", "resubmit"} => j.who \in Requesters /\ j.payload \in Payloads
         /\ j.op = "cancel" => j.who \in Requesters
         /\ j.op \in {"decide", "sendBack"} => j.who \in Employees
         /\ j.op \in {"resubmit", "cancel", "decide", "sendBack", "notify"} => j.id \in Ids
         /\ j.op = "notify" => j.event \in Events
  BY DEF Jobs

\* A commit stores the row it is given and keeps every table in its domain.
LEMMA CommitTypes ==
  ASSUME TypeOK, NEW h \in Handlers, NEW i \in Ids, NEW row \in Row, NEW event \in Events,
         Commit(h, i, row, event), Announce(h, i, event) \/ Finish(h)
  PROVE  TypeOK'
<1>1. [op |-> "notify", id |-> i, event |-> event] \in Jobs
  BY DEF Jobs
<1>2. NoJob \in Jobs
  BY DEF Jobs, NoJob
<1>3. timeline' \in [Ids -> Seq(Events)]
  BY AppendProperties DEF Commit, TypeOK
<1>4. requests' \in [Ids -> Row \cup {Absent}]
  BY DEF Commit, TypeOK
<1>5. pc' \in [Handlers -> {"idle", "lock", "row", "check", "write", "notify"}]
  BY DEF TypeOK, Announce, Finish
<1>6. job' \in [Handlers -> Jobs]
  BY <1>1, <1>2 DEF TypeOK, Announce, Finish
<1> QED BY <1>3, <1>4, <1>5, <1>6 DEF Commit, ReleaseLocks, TypeOK

\* The row each commit writes is a well-formed request.
LEMMA CommitSomeTypes ==
  ASSUME TypeOK, \A g \in Handlers : RowIsAsChecked(g), NEW h \in Handlers, CommitSome(h)
  PROVE  TypeOK'
<1> USE JobFields, RoutingData DEF TypeOK
<1>1. PICK i \in Ids : \/ CommitCreate(h, i)
                       \/ CommitResubmit(h, i)
                       \/ CommitCancel(h, i)
                       \/ \E verdict \in Decided : CommitDecide(h, i, verdict)
                       \/ CommitSendBack(h, i)
  BY DEF CommitSome
<1>2. job[h].op \in {"resubmit", "cancel", "decide", "sendBack"} /\ pc[h] = "write" /\ i = job[h].id
        => requests[i] \in Row
  BY DEF RowIsAsChecked, HoldsRow, Exists
<1>3. CASE CommitCreate(h, i)
  <2> DEFINE row == [type |-> TypeOf[job[h].payload], status |-> "pending",
                     requester |-> job[h].who, scope |-> RouteOf[job[h].who],
                     payload |-> job[h].payload, decidedBy |-> Nobody]
  <2>1. row \in Row
    BY <1>3 DEF CommitCreate, Row, Statuses, Open
  <2> QED BY <1>3, <2>1, CommitTypes DEF CommitCreate, Events
<1>4. CASE CommitResubmit(h, i)
  <2> DEFINE row == [requests[i] EXCEPT !.status = "pending",
                                        !.payload = job[h].payload, !.decidedBy = Nobody]
  <2>1. row \in Row
    BY <1>4, <1>2 DEF CommitResubmit, Commit, Row, Statuses, Open
  <2> QED BY <1>4, <2>1, CommitTypes DEF CommitResubmit, Events
<1>5. CASE CommitCancel(h, i)
  <2> DEFINE row == [requests[i] EXCEPT !.status = "cancelled"]
  <2>1. row \in Row
    BY <1>5, <1>2 DEF CommitCancel, Commit, Row, Statuses
  <2> QED BY <1>5, <2>1, CommitTypes DEF CommitCancel, Events
<1>6. ASSUME NEW verdict \in Decided, CommitDecide(h, i, verdict) PROVE TypeOK'
  <2> DEFINE row == [requests[i] EXCEPT !.status = verdict, !.decidedBy = job[h].who]
  <2>1. row \in Row
    BY <1>6, <1>2 DEF CommitDecide, Commit, Row, Statuses
  <2> QED BY <1>6, <2>1, CommitTypes DEF CommitDecide, Events
<1>7. CASE CommitSendBack(h, i)
  <2> DEFINE row == [requests[i] EXCEPT !.status = "sent_back", !.decidedBy = job[h].who]
  <2>1. row \in Row
    BY <1>7, <1>2 DEF CommitSendBack, Commit, Row, Statuses, Open
  <2> QED BY <1>7, <2>1, CommitTypes DEF CommitSendBack, Events
<1> QED BY <1>1, <1>3, <1>4, <1>5, <1>6, <1>7

LEMMA InitTypes == Init => TypeOK
  BY EmptySeq DEF Init, TypeOK, Jobs, NoJob

LEMMA StepTypes ==
  ASSUME TypeOK, \A g \in Handlers : RowIsAsChecked(g), [Next]_vars
  PROVE  TypeOK'
<1> USE DEF TypeOK
<1>1. ASSUME NEW h \in Handlers, Rollback(h) PROVE TypeOK'
  BY <1>1 DEF Rollback, Finish, ReleaseLocks, db, NoJob, Jobs
<1>2. ASSUME NEW h \in Handlers, Start(h) PROVE TypeOK'
  <2> USE <1>2, RoutingData DEF Begin, db, locks
  <2>1. ASSUME NEW r \in Requesters, NEW c \in Payloads, StartCreate(h, r, c) PROVE TypeOK'
    <3> DEFINE j == [op |-> "create", who |-> r, payload |-> c]
    <3>1. j \in Jobs
      BY DEF Jobs
    <3> QED BY <2>1, <3>1 DEF StartCreate
  <2>2. ASSUME NEW r \in Requesters, NEW c \in Payloads, NEW i \in Ids, StartResubmit(h, r, i, c)
        PROVE TypeOK'
    <3> DEFINE j == [op |-> "resubmit", id |-> i, who |-> r, payload |-> c]
    <3>1. j \in Jobs
      BY DEF Jobs
    <3> QED BY <2>2, <3>1 DEF StartResubmit
  <2>3. ASSUME NEW r \in Requesters, NEW i \in Ids, StartCancel(h, r, i) PROVE TypeOK'
    <3> DEFINE j == [op |-> "cancel", id |-> i, who |-> r]
    <3>1. j \in Jobs
      BY DEF Jobs
    <3> QED BY <2>3, <3>1 DEF StartCancel
  <2>4. ASSUME NEW e \in Employees, NEW i \in Ids, StartDecide(h, e, i) PROVE TypeOK'
    <3> DEFINE j == [op |-> "decide", id |-> i, who |-> e]
    <3>1. j \in Jobs
      BY DEF Jobs
    <3> QED BY <2>4, <3>1 DEF StartDecide
  <2>5. ASSUME NEW e \in Employees, NEW i \in Ids, StartSendBack(h, e, i) PROVE TypeOK'
    <3> DEFINE j == [op |-> "sendBack", id |-> i, who |-> e]
    <3>1. j \in Jobs
      BY DEF Jobs
    <3> QED BY <2>5, <3>1 DEF StartSendBack
  <2> QED BY <2>1, <2>2, <2>3, <2>4, <2>5 DEF Start
<1>3. ASSUME NEW h \in Handlers, TakeAdvisoryLock(h) PROVE TypeOK'
  BY <1>3 DEF TakeAdvisoryLock, Goto, db
<1>4. ASSUME NEW h \in Handlers, LockRow(h) PROVE TypeOK'
  BY <1>4, <1>1 DEF LockRow, Goto, db
<1>5. ASSUME NEW h \in Handlers, CheckDuplicates(h) PROVE TypeOK'
  BY <1>5, <1>1 DEF CheckDuplicates, Goto, db, locks
<1>6. ASSUME NEW h \in Handlers, Fail(h) PROVE TypeOK'
  BY <1>6, <1>1 DEF Fail
<1>7. ASSUME NEW h \in Handlers, Notify(h) PROVE TypeOK'
  BY <1>7 DEF Notify, Finish, NoJob, Jobs, db, locks
<1>8. ASSUME NEW s \in Scopes, NEW E \in SUBSET Employees, SetApprovers(s, E) PROVE TypeOK'
  BY <1>8 DEF SetApprovers, db, locks
<1>9. CASE Restart
  BY <1>9 DEF Restart, db, NoJob, Jobs
<1>10. CASE UNCHANGED vars
  BY <1>10 DEF vars
<1>11. ASSUME NEW h \in Handlers, CommitSome(h) PROVE TypeOK'
  BY <1>11, CommitSomeTypes
<1> QED BY <1>1, <1>2, <1>3, <1>4, <1>5, <1>6, <1>7, <1>8, <1>9, <1>10, <1>11 DEF Next, Proceed

-----------------------------------------------------------------------------
\* A handler's step is one of these; the rest of the proofs split on them.
LEMMA StepCases ==
  ASSUME [Next]_vars
  PROVE  \/ \E h \in Handlers : Start(h) \/ TakeAdvisoryLock(h) \/ LockRow(h)
              \/ CheckDuplicates(h) \/ CommitSome(h) \/ Notify(h) \/ Fail(h)
         \/ \E s \in Scopes, E \in SUBSET Employees : SetApprovers(s, E)
         \/ Restart
         \/ UNCHANGED vars
  BY DEF Next, Proceed

\* A handler that starts takes no lock and has written nothing.
LEMMA StartEffect ==
  ASSUME TypeOK, NEW h \in Handlers, Start(h)
  PROVE  /\ UNCHANGED <<requests, timeline, approvers, advisory, rowLock>>
         /\ \A g \in Handlers \ {h} : pc'[g] = pc[g] /\ job'[g] = job[g]
         /\ \/ pc'[h] = "lock" /\ job'[h].op \in {"create", "resubmit"}
            \/ pc'[h] = "row" /\ job'[h].op \in {"cancel", "decide", "sendBack"}
<1> USE DEF TypeOK, Begin, db, locks
<1>1. CASE \E r \in Requesters, c \in Payloads : StartCreate(h, r, c)
  BY <1>1 DEF StartCreate
<1>2. CASE \E r \in Requesters, i \in Ids, c \in Payloads : StartResubmit(h, r, i, c)
  BY <1>2 DEF StartResubmit
<1>3. CASE \E r \in Requesters, i \in Ids : StartCancel(h, r, i)
  BY <1>3 DEF StartCancel
<1>4. CASE \E e \in Employees, i \in Ids : StartDecide(h, e, i)
  BY <1>4 DEF StartDecide
<1>5. CASE \E e \in Employees, i \in Ids : StartSendBack(h, e, i)
  BY <1>5 DEF StartSendBack
<1> QED BY <1>1, <1>2, <1>3, <1>4, <1>5 DEF Start

\* A rollback leaves the tables alone and ends only its own handler.
LEMMA RollbackEffect ==
  ASSUME TypeOK, NEW h \in Handlers, Rollback(h)
  PROVE  /\ UNCHANGED <<requests, timeline, approvers>>
         /\ \A g \in Handlers \ {h} : pc'[g] = pc[g] /\ job'[g] = job[g]
         /\ pc'[h] = "idle" /\ job'[h] = NoJob
         /\ \A k \in LockKeys : advisory[k] # h => advisory'[k] = advisory[k]
         /\ \A i \in Ids : rowLock[i] # h => rowLock'[i] = rowLock[i]
  BY DEF TypeOK, Rollback, Finish, ReleaseLocks, db

\* A commit changes one row, and its handler is past its locks afterwards.
LEMMA CommitEffect ==
  ASSUME TypeOK, NEW h \in Handlers, CommitSome(h)
  PROVE  /\ pc[h] = "write" /\ UNCHANGED approvers
         /\ \A g \in Handlers \ {h} : pc'[g] = pc[g] /\ job'[g] = job[g]
         /\ \/ pc'[h] = "idle" /\ job'[h] = NoJob
            \/ pc'[h] = "notify" /\ job'[h].op = "notify"
         /\ \A k \in LockKeys : advisory[k] # h => advisory'[k] = advisory[k]
         /\ \A i \in Ids : rowLock[i] # h => rowLock'[i] = rowLock[i]
         /\ \E i \in Ids : /\ job[h].op = "create" \/ i = job[h].id
                           /\ \A j \in Ids \ {i} : requests'[j] = requests[j]
<1>1. PICK i \in Ids : \/ CommitCreate(h, i)
                       \/ CommitResubmit(h, i)
                       \/ CommitCancel(h, i)
                       \/ \E verdict \in Decided : CommitDecide(h, i, verdict)
                       \/ CommitSendBack(h, i)
  BY DEF CommitSome
<1>2. ASSUME NEW row, NEW event, Commit(h, i, row, event), Announce(h, i, event) \/ Finish(h),
             job[h].op = "create" \/ i = job[h].id
      PROVE  /\ pc[h] = "write" /\ UNCHANGED approvers
             /\ \A g \in Handlers \ {h} : pc'[g] = pc[g] /\ job'[g] = job[g]
             /\ \/ pc'[h] = "idle" /\ job'[h] = NoJob
                \/ pc'[h] = "notify" /\ job'[h].op = "notify"
             /\ \A k \in LockKeys : advisory[k] # h => advisory'[k] = advisory[k]
             /\ \A j \in Ids : rowLock[j] # h => rowLock'[j] = rowLock[j]
             /\ \A j \in Ids \ {i} : requests'[j] = requests[j]
  BY <1>2 DEF Commit, Announce, Finish, ReleaseLocks, TypeOK
<1>3. CASE CommitCreate(h, i)
  BY <1>2, <1>3 DEF CommitCreate
<1>4. CASE CommitResubmit(h, i)
  BY <1>2, <1>4 DEF CommitResubmit
<1>5. CASE CommitCancel(h, i)
  BY <1>2, <1>5 DEF CommitCancel
<1>6. CASE \E verdict \in Decided : CommitDecide(h, i, verdict)
  BY <1>2, <1>6 DEF CommitDecide
<1>7. CASE CommitSendBack(h, i)
  BY <1>2, <1>7 DEF CommitSendBack
<1> QED BY <1>1, <1>3, <1>4, <1>5, <1>6, <1>7

LEMMA StepOps ==
  ASSUME TypeOK, OpMatchesPc, [Next]_vars
  PROVE  OpMatchesPc'
<1> USE DEF OpMatchesPc
<1>1. ASSUME NEW h \in Handlers, Start(h) PROVE OpMatchesPc'
  BY <1>1, StartEffect
<1>2. ASSUME NEW h \in Handlers, TakeAdvisoryLock(h) PROVE OpMatchesPc'
  BY <1>2 DEF TakeAdvisoryLock, Goto, TypeOK
<1>3. ASSUME NEW h \in Handlers, Rollback(h) PROVE OpMatchesPc'
  BY <1>3, RollbackEffect
<1>4. ASSUME NEW h \in Handlers, LockRow(h) PROVE OpMatchesPc'
  BY <1>4, <1>3 DEF LockRow, Goto, TypeOK, Admits
<1>5. ASSUME NEW h \in Handlers, CheckDuplicates(h) PROVE OpMatchesPc'
  BY <1>5, <1>3 DEF CheckDuplicates, Goto, TypeOK
<1>6. ASSUME NEW h \in Handlers, CommitSome(h) PROVE OpMatchesPc'
  BY <1>6, CommitEffect
<1>7. ASSUME NEW h \in Handlers, Fail(h) PROVE OpMatchesPc'
  BY <1>7, <1>3 DEF Fail
<1>8. ASSUME NEW h \in Handlers, Notify(h) PROVE OpMatchesPc'
  BY <1>8 DEF Notify, Finish, TypeOK
<1>9. CASE UNCHANGED <<pc, job>>
  BY <1>9
<1>10. CASE Restart
  BY <1>10 DEF Restart
<1> QED
  BY StepCases, <1>1, <1>2, <1>4, <1>5, <1>6, <1>7, <1>8, <1>9, <1>10 DEF SetApprovers, vars

LEMMA StepLocks ==
  ASSUME TypeOK, OpMatchesPc, LockDiscipline, [Next]_vars
  PROVE  LockDiscipline'
<1> USE JobFields, RoutingData DEF LockDiscipline, HoldsKey, HoldsRow
<1>1. ASSUME NEW h \in Handlers, Start(h) PROVE LockDiscipline'
  BY <1>1, StartEffect
<1>2. ASSUME NEW h \in Handlers, TakeAdvisoryLock(h) PROVE LockDiscipline'
  BY <1>2 DEF TakeAdvisoryLock, Goto, TypeOK, OpMatchesPc
<1>3. ASSUME NEW h \in Handlers, Rollback(h) PROVE LockDiscipline'
  BY <1>3, RollbackEffect DEF TypeOK
<1>4. ASSUME NEW h \in Handlers, LockRow(h) PROVE LockDiscipline'
  BY <1>4, <1>3 DEF LockRow, Goto, TypeOK, OpMatchesPc
<1>5. ASSUME NEW h \in Handlers, CheckDuplicates(h) PROVE LockDiscipline'
  BY <1>5, <1>3 DEF CheckDuplicates, Goto, TypeOK, locks, OpMatchesPc
<1>6. ASSUME NEW h \in Handlers, CommitSome(h) PROVE LockDiscipline'
  BY <1>6, CommitEffect DEF TypeOK
<1>7. ASSUME NEW h \in Handlers, Fail(h) PROVE LockDiscipline'
  BY <1>7, <1>3 DEF Fail
<1>8. ASSUME NEW h \in Handlers, Notify(h) PROVE LockDiscipline'
  BY <1>8 DEF Notify, Finish, TypeOK, locks
<1>9. CASE UNCHANGED <<pc, job, advisory, rowLock>>
  BY <1>9
<1>10. CASE Restart
  BY <1>10 DEF Restart
<1> QED
  BY StepCases, <1>1, <1>2, <1>4, <1>5, <1>6, <1>7, <1>8, <1>9, <1>10 DEF SetApprovers, vars, locks

-----------------------------------------------------------------------------
\* What a commit does to the one row it writes: a step of the lifecycle diagram
\* from the status the handler checked.
RowStep(h, i) ==
  LET old == requests[i]
      new == requests'[i] IN
  /\ new # Absent
  /\ \A j \in Ids \ {i} : requests'[j] = requests[j]
  /\ \/ /\ job[h].op = "create" /\ old = Absent
        /\ new.status = "pending" /\ new.payload = job[h].payload
        /\ new.type = TypeOf[job[h].payload]
     \/ /\ job[h].op = "resubmit" /\ i = job[h].id /\ old # Absent
        /\ old.status = "sent_back" /\ new.status = "pending"
        /\ new.payload = job[h].payload /\ new.type = old.type
     \/ /\ job[h].op = "cancel" /\ i = job[h].id /\ old # Absent
        /\ old.status \in Open /\ new.status = "cancelled"
        /\ new.payload = old.payload /\ new.type = old.type
     \/ /\ job[h].op = "decide" /\ i = job[h].id /\ old # Absent
        /\ old.status = "pending" /\ new.status \in Decided
        /\ new.payload = old.payload /\ new.type = old.type
     \/ /\ job[h].op = "sendBack" /\ i = job[h].id /\ old # Absent
        /\ old.status = "pending" /\ new.status = "sent_back"
        /\ new.payload = old.payload /\ new.type = old.type

LEMMA CommitIsRowStep ==
  ASSUME TypeOK, TypeOK', \A g \in Handlers : RowIsAsChecked(g), NEW h \in Handlers, CommitSome(h)
  PROVE  pc[h] = "write" /\ \E i \in Ids : RowStep(h, i)
<1>1. PICK i \in Ids : \/ CommitCreate(h, i)
                       \/ CommitResubmit(h, i)
                       \/ CommitCancel(h, i)
                       \/ \E verdict \in Decided : CommitDecide(h, i, verdict)
                       \/ CommitSendBack(h, i)
  BY DEF CommitSome
<1> USE RoutingData DEF TypeOK
<1>2. ASSUME NEW row, NEW event, Commit(h, i, row, event)
      PROVE  /\ pc[h] = "write" /\ requests'[i] = row
             /\ \A j \in Ids \ {i} : requests'[j] = requests[j]
  BY <1>2 DEF Commit
<1>3. ASSUME pc[h] = "write", i = job[h].id,
             job[h].op \in {"resubmit", "cancel", "decide", "sendBack"}
      PROVE  /\ requests[i] # Absent /\ requests[i] \in Row
             /\ job[h].op = "resubmit" => requests[i].status = "sent_back"
             /\ job[h].op = "cancel" => requests[i].status \in Open
             /\ job[h].op \in {"decide", "sendBack"} => requests[i].status = "pending"
  BY <1>3 DEF RowIsAsChecked, HoldsRow, Exists
<1>4. CASE CommitCreate(h, i)
  <2>0. pc[h] = "write" /\ \A j \in Ids \ {i} : requests'[j] = requests[j]
    BY <1>2, <1>4 DEF CommitCreate
  <2>1. requests'[i] = [type |-> TypeOf[job[h].payload], status |-> "pending",
                        requester |-> job[h].who, scope |-> RouteOf[job[h].who],
                        payload |-> job[h].payload, decidedBy |-> Nobody]
    BY <1>2, <1>4 DEF CommitCreate
  <2>2. requests'[i] # Absent
    <3>1. job[h].who \in Requesters /\ job[h].payload \in Payloads
      BY <1>4, JobFields DEF CommitCreate
    <3>2. RouteOf[job[h].who] \in Scopes /\ TypeOf[job[h].payload] \in Types
      BY <3>1
    <3> QED BY <2>1, <3>1, <3>2 DEF Row, Statuses, Open
  <2>3. RowStep(h, i)
    BY <1>4, <2>0, <2>1, <2>2 DEF RowStep, CommitCreate, Exists
  <2> QED BY <2>0, <2>3
<1>5. CASE CommitResubmit(h, i)
  <2>1. /\ pc[h] = "write"
        /\ requests'[i] = [requests[i] EXCEPT !.status = "pending",
                             !.payload = job[h].payload, !.decidedBy = Nobody]
    BY <1>2, <1>5 DEF CommitResubmit
  <2>2. requests'[i].status = "pending" /\ requests'[i].payload = job[h].payload
        /\ requests'[i].type = requests[i].type /\ requests'[i] \in Row
    BY <2>1, <1>3, <1>5, JobFields DEF CommitResubmit, Row, Statuses, Open
  <2> QED BY <1>2, <1>3, <1>5, <2>1, <2>2 DEF RowStep, CommitResubmit
<1>6. CASE CommitCancel(h, i)
  <2>1. /\ pc[h] = "write"
        /\ requests'[i] = [requests[i] EXCEPT !.status = "cancelled"]
    BY <1>2, <1>6 DEF CommitCancel
  <2>2. requests'[i].status = "cancelled" /\ requests'[i].payload = requests[i].payload
        /\ requests'[i].type = requests[i].type /\ requests'[i] \in Row
    BY <2>1, <1>3, <1>6 DEF CommitCancel, Row, Statuses
  <2> QED BY <1>2, <1>3, <1>6, <2>1, <2>2 DEF RowStep, CommitCancel
<1>7. ASSUME NEW verdict \in Decided, CommitDecide(h, i, verdict)
      PROVE  pc[h] = "write" /\ RowStep(h, i)
  <2>1. /\ pc[h] = "write"
        /\ requests'[i] = [requests[i] EXCEPT !.status = verdict, !.decidedBy = job[h].who]
    BY <1>2, <1>7 DEF CommitDecide
  <2>2. requests'[i].status = verdict /\ requests'[i].payload = requests[i].payload
        /\ requests'[i].type = requests[i].type /\ requests'[i] \in Row
    BY <2>1, <1>3, <1>7, JobFields DEF CommitDecide, Row, Statuses
  <2> QED BY <1>2, <1>3, <1>7, <2>1, <2>2 DEF RowStep, CommitDecide
<1>8. CASE CommitSendBack(h, i)
  <2>1. /\ pc[h] = "write"
        /\ requests'[i] = [requests[i] EXCEPT !.status = "sent_back", !.decidedBy = job[h].who]
    BY <1>2, <1>8 DEF CommitSendBack
  <2>2. requests'[i].status = "sent_back" /\ requests'[i].payload = requests[i].payload
        /\ requests'[i].type = requests[i].type /\ requests'[i] \in Row
    BY <2>1, <1>3, <1>8, JobFields DEF CommitSendBack, Row, Statuses, Open
  <2> QED BY <1>2, <1>3, <1>8, <2>1, <2>2 DEF RowStep, CommitSendBack
<1> QED BY <1>1, <1>4, <1>5, <1>6, <1>7, <1>8

-----------------------------------------------------------------------------
(* What the locks protect, of the requests in a set I: all of them here; in  *)
(* the companies' module those that no late save has reopened.               *)

ClaimsAreFreeIn(h, I) ==
  pc[h] = "write" /\ job[h].op \in {"create", "resubmit"} =>
    \A i \in I : Clashes(job[h].payload, i) => job[h].op = "resubmit" /\ i = job[h].id

ChecksStayValidIn(I) == \A h \in Handlers : RowIsAsChecked(h) /\ ClaimsAreFreeIn(h, I)

ClaimsExclusiveIn(I) ==
  \A i, j \in I : i # j /\ IsOpen(i) /\ IsOpen(j) => Held(i) \cap Held(j) = {}

\* The claims of a row that two steps agree on are the same.
LEMMA HeldStays ==
  ASSUME NEW i \in Ids, requests[i].payload = requests'[i].payload,
         requests[i].type = requests'[i].type
  PROVE  Held(i)' = Held(i)
  BY DEF Held

\* Two payloads that clash are submitted under one key, so by one handler at a time.
LEMMA OneSubmitterPerItem ==
  ASSUME TypeOK, LockDiscipline, NEW g \in Handlers, NEW h \in Handlers,
         pc[g] = "write", pc[h] = "write",
         job[g].op \in {"create", "resubmit"}, job[h].op \in {"create", "resubmit"},
         ClaimsOf[job[g].payload] \cap ClaimsOf[job[h].payload] # {}
  PROVE  g = h
<1>1. job[g].payload \in Payloads /\ job[h].payload \in Payloads
  BY JobFields DEF TypeOK
<1>2. LockKey[job[g].payload] = LockKey[job[h].payload]
  BY <1>1, LockContract
<1> QED BY <1>2 DEF LockDiscipline, HoldsKey

LEMMA CommitKeepsChecks ==
  ASSUME TypeOK, TypeOK', OpMatchesPc, LockDiscipline, NEW I \in SUBSET Ids, ChecksStayValidIn(I),
         NEW h \in Handlers, CommitSome(h)
  PROVE  ChecksStayValidIn(I)'
<1>1. PICK i \in Ids : pc[h] = "write" /\ RowStep(h, i)
  BY CommitIsRowStep DEF ChecksStayValidIn
<1>2. /\ \A g \in Handlers \ {h} : pc'[g] = pc[g] /\ job'[g] = job[g]
      /\ \/ pc'[h] = "idle" /\ job'[h] = NoJob
         \/ pc'[h] = "notify" /\ job'[h].op = "notify"
  BY CommitEffect
<1>3. ASSUME NEW g \in Handlers PROVE RowIsAsChecked(g)'
  <2> SUFFICES ASSUME HoldsRow(g)'
               PROVE  /\ requests'[job[g].id] = requests[job[g].id]
                      /\ job'[g] = job[g] /\ HoldsRow(g)
    BY DEF ChecksStayValidIn, RowIsAsChecked, Exists
  <2>1. g # h /\ HoldsRow(g) /\ job'[g] = job[g]
    BY <1>2 DEF HoldsRow
  <2>2. job[g].id \in Ids /\ Exists(job[g].id)
    BY <2>1, JobFields DEF HoldsRow, TypeOK, ChecksStayValidIn, RowIsAsChecked
  <2>3. job[g].id # i
    BY <1>1, <2>1, <2>2 DEF RowStep, Exists, LockDiscipline, HoldsRow
  <2> QED BY <1>1, <2>1, <2>2, <2>3 DEF RowStep
<1>4. ASSUME NEW g \in Handlers PROVE ClaimsAreFreeIn(g, I)'
  <2> SUFFICES ASSUME pc'[g] = "write", job'[g].op \in {"create", "resubmit"},
                      NEW j \in I, Clashes(job[g].payload, j)'
               PROVE  job'[g] = job[g] /\ pc[g] = "write" /\ Clashes(job[g].payload, j)
    BY DEF ChecksStayValidIn, ClaimsAreFreeIn
  <2>1. g # h /\ pc[g] = "write" /\ job'[g] = job[g]
    BY <1>2
  <2>2. CASE j # i
    BY <1>1, <2>1, <2>2 DEF RowStep, Clashes, Held, IsOpen, Exists
  <2>3. CASE j = i
    <3>0. Held(i)' # {} /\ Held(i)' = ClaimsOf[requests'[i].payload]
          /\ ClaimsOf[job'[g].payload] \cap Held(i)' # {}
      BY <2>1, <2>3 DEF Clashes, Held
    <3>1. job[h].op \in {"create", "resubmit"} => requests'[i].payload # job[h].payload
      BY <1>1, <2>1, <2>3, <3>0, OneSubmitterPerItem
    <3>2. requests'[i].status \in {"pending", "sent_back"}
      BY <2>3 DEF Clashes, IsOpen, Open
    <3>3. /\ requests[i] # Absent /\ requests[i].status = "pending"
          /\ requests'[i].payload = requests[i].payload
          /\ requests'[i].type = requests[i].type
      BY <1>1, <3>1, <3>2 DEF RowStep, Open, Decided
    <3>4. Held(i)' = Held(i)
      BY <3>3, HeldStays
    <3> QED BY <2>1, <2>3, <3>0, <3>3, <3>4 DEF Clashes, IsOpen, Exists, Open
  <2> QED BY <2>1, <2>2, <2>3
<1> QED BY <1>3, <1>4 DEF ChecksStayValidIn

LEMMA StepChecksIn ==
  ASSUME TypeOK, TypeOK', OpMatchesPc, LockDiscipline, NEW I \in SUBSET Ids, ChecksStayValidIn(I),
         [Next]_vars
  PROVE  ChecksStayValidIn(I)'
<1> USE DEF HoldsRow, Exists, Clashes, IsOpen, Held
<1>0. ASSUME NEW g \in Handlers, UNCHANGED requests, pc'[g] = pc[g], job'[g] = job[g]
      PROVE  RowIsAsChecked(g)' /\ ClaimsAreFreeIn(g, I)'
  BY <1>0 DEF ChecksStayValidIn, RowIsAsChecked, ClaimsAreFreeIn
<1>1. ASSUME NEW h \in Handlers, UNCHANGED requests,
             \A g \in Handlers \ {h} : pc'[g] = pc[g] /\ job'[g] = job[g],
             RowIsAsChecked(h)' /\ ClaimsAreFreeIn(h, I)'
      PROVE  ChecksStayValidIn(I)'
  BY <1>0, <1>1 DEF ChecksStayValidIn
<1>2. ASSUME NEW h \in Handlers, Start(h) PROVE ChecksStayValidIn(I)'
  <2>1. RowIsAsChecked(h)' /\ ClaimsAreFreeIn(h, I)'
    BY <1>2, StartEffect DEF RowIsAsChecked, ClaimsAreFreeIn
  <2> QED BY <1>1, <1>2, <2>1, StartEffect
<1>3. ASSUME NEW h \in Handlers, Rollback(h) PROVE ChecksStayValidIn(I)'
  <2>1. RowIsAsChecked(h)' /\ ClaimsAreFreeIn(h, I)'
    BY <1>3, RollbackEffect DEF RowIsAsChecked, ClaimsAreFreeIn
  <2> QED BY <1>1, <1>3, <2>1, RollbackEffect
<1>4. ASSUME NEW h \in Handlers, TakeAdvisoryLock(h) PROVE ChecksStayValidIn(I)'
  <2>1. RowIsAsChecked(h)' /\ ClaimsAreFreeIn(h, I)'
    BY <1>4 DEF TakeAdvisoryLock, Goto, TypeOK, OpMatchesPc, RowIsAsChecked, ClaimsAreFreeIn
  <2> QED BY <1>1, <1>4, <2>1 DEF TakeAdvisoryLock, Goto, TypeOK, db
<1>5. ASSUME NEW h \in Handlers, LockRow(h) PROVE ChecksStayValidIn(I)'
  <2>1. CASE Rollback(h)
    BY <1>3, <2>1
  <2>2. CASE /\ pc[h] = "row" /\ Admits(h, job[h].id) /\ UNCHANGED db
             /\ Goto(h, IF job[h].op = "resubmit" THEN "check" ELSE "write")
    <3>1. pc'[h] = (IF job[h].op = "resubmit" THEN "check" ELSE "write") /\ job' = job
      BY <2>2 DEF Goto, TypeOK
    <3>2. job[h].op \in {"resubmit", "cancel", "decide", "sendBack"}
      BY <2>2 DEF OpMatchesPc
    <3>3. job[h].id \in Ids
      BY <3>2, JobFields DEF TypeOK
    <3>4. RowIsAsChecked(h)'
      BY <2>2, <3>1, <3>2, <3>3 DEF RowIsAsChecked, Admits, db
    <3>5. ClaimsAreFreeIn(h, I)'
      BY <3>1, <3>2 DEF ClaimsAreFreeIn
    <3> QED BY <1>1, <2>2, <3>4, <3>5 DEF Goto, TypeOK, db
  <2> QED BY <1>5, <2>1, <2>2 DEF LockRow
<1>6. ASSUME NEW h \in Handlers, CheckDuplicates(h) PROVE ChecksStayValidIn(I)'
  <2>1. CASE Rollback(h)
    BY <1>3, <2>1
  <2>2. CASE /\ pc[h] = "check" /\ Goto(h, "write") /\ UNCHANGED <<db, locks, approvers>>
             /\ ~\E i \in Ids : /\ Clashes(job[h].payload, i)
                                /\ job[h].op = "resubmit" => i # job[h].id
    <3>1. pc'[h] = "write" /\ job' = job /\ UNCHANGED requests
      BY <2>2 DEF Goto, TypeOK, db
    <3>2. RowIsAsChecked(h)'
      BY <2>2, <3>1 DEF RowIsAsChecked, ChecksStayValidIn, OpMatchesPc
    <3>3. ClaimsAreFreeIn(h, I)'
      BY <2>2, <3>1 DEF ClaimsAreFreeIn
    <3> QED BY <1>1, <2>2, <3>2, <3>3 DEF Goto, TypeOK, db
  <2> QED BY <1>6, <2>1, <2>2 DEF CheckDuplicates
<1>7. ASSUME NEW h \in Handlers, CommitSome(h) PROVE ChecksStayValidIn(I)'
  BY <1>7, CommitKeepsChecks
<1>8. ASSUME NEW h \in Handlers, Fail(h) PROVE ChecksStayValidIn(I)'
  BY <1>8, <1>3 DEF Fail
<1>9. ASSUME NEW h \in Handlers, Notify(h) PROVE ChecksStayValidIn(I)'
  <2>1. RowIsAsChecked(h)' /\ ClaimsAreFreeIn(h, I)'
    BY <1>9 DEF Notify, Finish, TypeOK, RowIsAsChecked, ClaimsAreFreeIn
  <2> QED BY <1>1, <1>9, <2>1 DEF Notify, Finish, TypeOK, db
<1>10. CASE UNCHANGED <<requests, pc, job>>
  BY <1>0, <1>10 DEF ChecksStayValidIn
<1>11. CASE Restart
  BY <1>11 DEF Restart, ChecksStayValidIn, RowIsAsChecked, ClaimsAreFreeIn
<1> QED
  BY StepCases, <1>2, <1>4, <1>5, <1>6, <1>7, <1>8, <1>9, <1>10, <1>11 DEF SetApprovers, vars, db

\* A commit only adds claims its handler found free, so claims stay exclusive.
LEMMA StepClaimsIn ==
  ASSUME TypeOK, TypeOK', NEW I \in SUBSET Ids, ChecksStayValidIn(I), ClaimsExclusiveIn(I),
         [Next]_vars
  PROVE  ClaimsExclusiveIn(I)'
<1>1. CASE UNCHANGED requests
  BY <1>1 DEF ClaimsExclusiveIn, IsOpen, Exists, Held
<1>2. ASSUME NEW h \in Handlers, CommitSome(h) PROVE ClaimsExclusiveIn(I)'
  <2>1. PICK i \in Ids : pc[h] = "write" /\ RowStep(h, i)
    BY <1>2, CommitIsRowStep DEF ChecksStayValidIn
  <2>2. ASSUME NEW j \in I \ {i}, IsOpen(j)', IsOpen(i)', i \in I
        PROVE  Held(i)' \cap Held(j)' = {}
    <3>1. requests'[j] = requests[j] /\ IsOpen(j) /\ Held(j)' = Held(j)
      BY <2>1, <2>2 DEF RowStep, IsOpen, Exists, Held
    <3>2. CASE job[h].op \in {"create", "resubmit"}
      <4>1. ~Clashes(job[h].payload, j) /\ requests'[i].payload = job[h].payload
        BY <2>1, <2>2, <3>2 DEF RowStep, ChecksStayValidIn, ClaimsAreFreeIn
      <4>2. Held(i)' = {} \/ Held(i)' = ClaimsOf[job[h].payload]
        BY <4>1 DEF Held
      <4> QED BY <3>1, <4>1, <4>2 DEF Clashes
    <3>3. CASE job[h].op \notin {"create", "resubmit"}
      <4>1. IsOpen(i) /\ Held(i)' = Held(i)
        BY <2>1, <2>2, <3>3 DEF RowStep, IsOpen, Exists, Open, Decided, Held
      <4> QED BY <2>2, <3>1, <4>1 DEF ClaimsExclusiveIn
    <3> QED BY <3>2, <3>3
  <2>3. ASSUME NEW j \in I, NEW k \in I, j # k, IsOpen(j)', IsOpen(k)', j # i, k # i
        PROVE  Held(j)' \cap Held(k)' = {}
    BY <2>1, <2>3 DEF RowStep, IsOpen, Exists, ClaimsExclusiveIn, Held
  <2> QED BY <2>2, <2>3 DEF ClaimsExclusiveIn
<1>3. ASSUME NEW h \in Handlers, Rollback(h) PROVE UNCHANGED requests
  BY <1>3 DEF Rollback, db
<1>4. (\E h \in Handlers : CommitSome(h)) \/ UNCHANGED requests
  <2>1. ASSUME NEW h \in Handlers, Start(h) PROVE UNCHANGED requests
    BY <2>1, StartEffect
  <2> QED BY StepCases, <1>3, <2>1
          DEF TakeAdvisoryLock, LockRow, CheckDuplicates, Notify, Fail, SetApprovers, Restart, vars, db
<1> QED BY <1>1, <1>2, <1>4

IInvIn(I) == /\ TypeOK /\ OpMatchesPc /\ LockDiscipline
             /\ ChecksStayValidIn(I) /\ ClaimsExclusiveIn(I)

LEMMA StepIInvIn ==
  ASSUME NEW I \in SUBSET Ids, IInvIn(I), [Next]_vars
  PROVE  IInvIn(I)'
<1>1. TypeOK'
  BY StepTypes DEF IInvIn, ChecksStayValidIn
<1> QED BY <1>1, StepOps, StepLocks, StepChecksIn, StepClaimsIn DEF IInvIn

\* The framework's own invariant is the case of all requests.
LEMMA AllIds == IInv <=> IInvIn(Ids)
  BY DEF IInv, IInvIn, ChecksStayValidIn, ChecksStayValid, ClaimsAreFreeIn, ClaimsAreFree,
         ClaimsExclusiveIn, ClaimsExclusive

LEMMA AllIdsNext == IInv' <=> IInvIn(Ids)'
  BY DEF IInv, IInvIn, ChecksStayValidIn, ChecksStayValid, ClaimsAreFreeIn, ClaimsAreFree,
         ClaimsExclusiveIn, ClaimsExclusive

-----------------------------------------------------------------------------
LEMMA InitIInv == Init => IInv
<1> SUFFICES ASSUME Init PROVE IInv
  OBVIOUS
<1>1. TypeOK
  BY InitTypes
<1>2. OpMatchesPc /\ LockDiscipline /\ ChecksStayValid
  BY DEF Init, NoJob, OpMatchesPc, LockDiscipline, ChecksStayValid, RowIsAsChecked,
         ClaimsAreFree, HoldsKey, HoldsRow
<1>3. ClaimsExclusive
  BY DEF Init, ClaimsExclusive, IsOpen, Exists
<1> QED BY <1>1, <1>2, <1>3 DEF IInv

LEMMA StepIInv == IInv /\ [Next]_vars => IInv'
<1> SUFFICES ASSUME IInvIn(Ids), [Next]_vars PROVE IInvIn(Ids)'
  BY AllIds, AllIdsNext
<1> QED BY StepIInvIn

THEOREM Inductive == Spec => []IInv
  BY InitIInv, StepIInv, PTL DEF Spec

\* Every table, lock and handler stays in its domain.
THEOREM TypeCorrect == Spec => []TypeOK
<1>1. IInv => TypeOK
  BY DEF IInv
<1> QED BY <1>1, Inductive, PTL

\* No two open requests hold one item, however many handlers race: the duplicate
\* check of assertCreatable and assertResubmittable, made under the advisory lock,
\* is still true when the row is written.
THEOREM ClaimsAreExclusive == Spec => []ClaimsExclusive
<1>1. IInv => ClaimsExclusive
  BY DEF IInv
<1> QED BY <1>1, Inductive, PTL

\* What a transaction checked under its locks is still so when it writes.
THEOREM ChecksAreStable == Spec => []ChecksStayValid
<1>1. IInv => ChecksStayValid
  BY DEF IInv
<1> QED BY <1>1, Inductive, PTL

\* A transaction past its lock statement is the one holder of that lock.
THEOREM LocksAreHeld == Spec => []LockDiscipline
<1>1. IInv => LockDiscipline
  BY DEF IInv
<1> QED BY <1>1, Inductive, PTL

-----------------------------------------------------------------------------
\* A row step of a handler whose checks hold is a step of the abstract lifecycle.
LEMMA RowStepIsLifecycleStep ==
  ASSUME IInv, IInv', NEW h \in Handlers, pc[h] = "write", NEW i \in Ids, RowStep(h, i)
  PROVE  Lifecycle!Next
<1> DEFINE st == [j \in Ids |-> StatusOf(j)]
           hd == [j \in Ids |-> HeldOf(j)]
           S == Held(i)'
<1>1. requests'[i] # Absent /\ \A j \in Ids \ {i} : requests'[j] = requests[j]
  BY DEF RowStep
<1>2. /\ st' = [st EXCEPT ![i] = requests'[i].status]
      /\ hd' = [hd EXCEPT ![i] = S]
  <2>1. StatusOf(i)' = requests'[i].status /\ HeldOf(i)' = S
    BY <1>1 DEF StatusOf, HeldOf, Exists
  <2>2. \A j \in Ids \ {i} : StatusOf(j)' = StatusOf(j) /\ HeldOf(j)' = HeldOf(j)
    BY <1>1 DEF StatusOf, HeldOf, Held, Exists
  <2> QED BY <2>1, <2>2
<1>3. requests'[i].payload \in Payloads
  BY <1>1 DEF IInv, TypeOK, Row
<1>4. S \in {{}} \cup {ClaimsOf[c] : c \in Payloads}
  BY <1>3 DEF Held
<1>5. CASE job[h].op \in {"create", "resubmit"}
  <2>1. requests'[i].status = "pending" /\ (S = {} \/ S = ClaimsOf[job[h].payload])
    BY <1>5 DEF RowStep, Held
  <2>2. Lifecycle!Free(i, S)
    <3> SUFFICES ASSUME NEW j \in Ids \ {i}, st[j] \in Open
                 PROVE  S \cap hd[j] = {}
      BY DEF Lifecycle!Free, Lifecycle!Open, Open
    <3>1. IsOpen(j) /\ hd[j] = Held(j)
      BY DEF StatusOf, HeldOf, IsOpen, Exists, Open
    <3>2. ~Clashes(job[h].payload, j)
      BY <1>5 DEF RowStep, IInv, ChecksStayValid, ClaimsAreFree
    <3> QED BY <2>1, <3>1, <3>2 DEF Clashes
  <2>3. st[i] = IF job[h].op = "create" THEN "absent" ELSE "sent_back"
    BY <1>5 DEF RowStep, StatusOf, Exists
  <2> HIDE DEF S
  <2>4. Lifecycle!Raise(i, S) \/ Lifecycle!Resubmit(i, S)
    BY <1>2, <2>1, <2>2, <2>3 DEF Lifecycle!Raise, Lifecycle!Resubmit
  <2> QED BY <1>4, <2>4 DEF Lifecycle!Next
<1>6. CASE job[h].op \notin {"create", "resubmit"}
  <2>1. Exists(i) /\ hd' = hd
    <3>1. Exists(i) /\ S = Held(i)
      BY <1>6 DEF RowStep, Exists, Held
    <3>2. hd[i] = S
      BY <3>1 DEF HeldOf
    <3> QED BY <1>2, <3>1, <3>2
  <2>2. st[i] = requests[i].status
    BY <2>1 DEF StatusOf
  <2>3. \/ st[i] \in {"pending", "sent_back"} /\ requests'[i].status = "cancelled"
        \/ st[i] = "pending" /\ requests'[i].status \in Decided
        \/ st[i] = "pending" /\ requests'[i].status = "sent_back"
    BY <1>6, <2>2 DEF RowStep, Open
  <2>4. \/ Lifecycle!Cancel(i)
        \/ \E verdict \in Decided : Lifecycle!Decide(i, verdict)
        \/ Lifecycle!SendBack(i)
    BY <1>2, <2>1, <2>3
       DEF Lifecycle!Cancel, Lifecycle!Decide, Lifecycle!SendBack, Lifecycle!Open
  <2> QED BY <2>4 DEF Lifecycle!Next, Lifecycle!Decided, Decided
<1> QED BY <1>5, <1>6

\* Every behaviour of the locked, concurrent handlers is one of the atomic lifecycle:
\* decided and cancelled are final, and an open request owns its claims.
THEOREM RefinesLifecycle == Spec => ImplementsLifecycle
<1>1. Init => Lifecycle!Init
  <2> SUFFICES ASSUME Init PROVE Lifecycle!Init
    OBVIOUS
  <2>1. \A i \in Ids : StatusOf(i) = "absent" /\ HeldOf(i) = {}
    BY DEF Init, StatusOf, HeldOf, Exists
  <2> QED BY <2>1 DEF Lifecycle!Init
<1>2. IInv /\ IInv' /\ [Next]_vars => [Lifecycle!Next]_(Lifecycle!lifecycle)
  <2> SUFFICES ASSUME IInv, IInv', [Next]_vars
               PROVE  Lifecycle!Next \/ UNCHANGED requests
    BY DEF Lifecycle!lifecycle, StatusOf, HeldOf, Held, Exists
  <2>1. ASSUME NEW h \in Handlers, CommitSome(h) PROVE Lifecycle!Next
    BY <2>1, CommitIsRowStep, RowStepIsLifecycleStep DEF IInv, ChecksStayValid
  <2>2. ASSUME NEW h \in Handlers, Start(h) PROVE UNCHANGED requests
    BY <2>2, StartEffect DEF IInv
  <2>3. ASSUME NEW h \in Handlers, Rollback(h) PROVE UNCHANGED requests
    BY <2>3 DEF Rollback, db
  <2> QED BY StepCases, <2>1, <2>2, <2>3
          DEF TakeAdvisoryLock, LockRow, CheckDuplicates, Notify, Fail, SetApprovers, Restart, vars, db
<1> QED BY <1>1, <1>2, Inductive, PTL DEF Spec, ImplementsLifecycle, Lifecycle!Spec

-----------------------------------------------------------------------------
\* What a commit records of the one request it writes: an event the status its
\* handler checked allows, the status after it, and who decided.
LogStep(i, event) ==
  /\ timeline' = [timeline EXCEPT ![i] = Append(@, event)]
  /\ \A j \in Ids \ {i} : requests'[j] = requests[j]
  /\ requests'[i] # Absent /\ requests'[i].status = StatusAfter(event)
  /\ \/ event = "raised" /\ ~Exists(i) /\ requests'[i].decidedBy = Nobody
     \/ /\ event = "resubmitted" /\ Exists(i) /\ requests[i].status = "sent_back"
        /\ requests'[i].decidedBy = Nobody
     \/ event = "cancelled" /\ Exists(i) /\ requests[i].status \in Open
     \/ /\ event \in Decided \cup {"sent_back"} /\ Exists(i) /\ requests[i].status = "pending"
        /\ requests'[i].decidedBy \in Employees

LEMMA CommitIsLogStep ==
  ASSUME TypeOK, \A g \in Handlers : RowIsAsChecked(g), NEW h \in Handlers, CommitSome(h)
  PROVE  \E i \in Ids, event \in Events :
           /\ LogStep(i, event)
           /\ pc'[h] = "notify" => job'[h].id = i /\ job'[h].event = event
<1>1. PICK i \in Ids : \/ CommitCreate(h, i)
                       \/ CommitResubmit(h, i)
                       \/ CommitCancel(h, i)
                       \/ \E verdict \in Decided : CommitDecide(h, i, verdict)
                       \/ CommitSendBack(h, i)
  BY DEF CommitSome
<1> USE RoutingData DEF TypeOK
<1>2. ASSUME NEW row, NEW event, Commit(h, i, row, event)
      PROVE  /\ timeline' = [timeline EXCEPT ![i] = Append(@, event)]
             /\ pc[h] = "write" /\ requests'[i] = row
             /\ \A j \in Ids \ {i} : requests'[j] = requests[j]
  BY <1>2 DEF Commit
<1>3. ASSUME NEW event, Announce(h, i, event)
      PROVE  job'[h].id = i /\ job'[h].event = event
  BY <1>3 DEF Announce
<1>4. ASSUME pc[h] = "write", i = job[h].id,
             job[h].op \in {"resubmit", "cancel", "decide", "sendBack"}
      PROVE  /\ Exists(i) /\ requests[i] \in Row
             /\ job[h].op = "resubmit" => requests[i].status = "sent_back"
             /\ job[h].op = "cancel" => requests[i].status \in Open
             /\ job[h].op \in {"decide", "sendBack"} => requests[i].status = "pending"
  BY <1>4 DEF RowIsAsChecked, HoldsRow, Exists
<1>5. CASE CommitCreate(h, i)
  <2> DEFINE row == [type |-> TypeOf[job[h].payload], status |-> "pending",
                     requester |-> job[h].who, scope |-> RouteOf[job[h].who],
                     payload |-> job[h].payload, decidedBy |-> Nobody]
  <2>1. /\ timeline' = [timeline EXCEPT ![i] = Append(@, "raised")]
        /\ pc[h] = "write" /\ requests'[i] = row
        /\ \A j \in Ids \ {i} : requests'[j] = requests[j]
    BY <1>2, <1>5 DEF CommitCreate
  <2>2. row \in Row
    BY <1>5, JobFields DEF CommitCreate, Row, Statuses, Open
  <2>3. LogStep(i, "raised")
    BY <1>5, <2>1, <2>2 DEF CommitCreate, LogStep, StatusAfter
  <2> QED BY <1>3, <1>5, <2>3 DEF CommitCreate, Events
<1>6. CASE CommitResubmit(h, i)
  <2>1. /\ timeline' = [timeline EXCEPT ![i] = Append(@, "resubmitted")] /\ pc[h] = "write"
        /\ requests'[i] = [requests[i] EXCEPT !.status = "pending",
                                              !.payload = job[h].payload, !.decidedBy = Nobody]
        /\ \A j \in Ids \ {i} : requests'[j] = requests[j]
    BY <1>2, <1>6 DEF CommitResubmit
  <2>2. /\ requests'[i] \in Row /\ requests'[i].status = "pending"
        /\ requests'[i].decidedBy = Nobody
    BY <2>1, <1>4, <1>6, JobFields DEF CommitResubmit, Row, Statuses, Open
  <2>3. LogStep(i, "resubmitted")
    BY <1>4, <1>6, <2>1, <2>2 DEF CommitResubmit, LogStep, StatusAfter
  <2> QED BY <1>3, <1>6, <2>3 DEF CommitResubmit, Events
<1>7. CASE CommitCancel(h, i)
  <2>1. /\ timeline' = [timeline EXCEPT ![i] = Append(@, "cancelled")] /\ pc[h] = "write"
        /\ requests'[i] = [requests[i] EXCEPT !.status = "cancelled"]
        /\ \A j \in Ids \ {i} : requests'[j] = requests[j]
    BY <1>2, <1>7 DEF CommitCancel
  <2>2. requests'[i] \in Row /\ requests'[i].status = "cancelled"
    BY <2>1, <1>4, <1>7 DEF CommitCancel, Row, Statuses
  <2>3. LogStep(i, "cancelled")
    BY <1>4, <1>7, <2>1, <2>2 DEF CommitCancel, LogStep, StatusAfter
  <2>4. pc'[h] = "idle"
    BY <1>7 DEF CommitCancel, Finish
  <2> QED BY <2>3, <2>4 DEF Events
<1>8. ASSUME NEW verdict \in Decided, CommitDecide(h, i, verdict)
      PROVE  LogStep(i, verdict) /\ Announce(h, i, verdict)
  <2>1. /\ timeline' = [timeline EXCEPT ![i] = Append(@, verdict)] /\ pc[h] = "write"
        /\ requests'[i] = [requests[i] EXCEPT !.status = verdict, !.decidedBy = job[h].who]
        /\ \A j \in Ids \ {i} : requests'[j] = requests[j]
    BY <1>2, <1>8 DEF CommitDecide
  <2>2. /\ requests'[i] \in Row /\ requests'[i].status = verdict
        /\ requests'[i].decidedBy \in Employees
    BY <2>1, <1>4, <1>8, JobFields DEF CommitDecide, Row, Statuses
  <2> QED BY <1>4, <1>8, <2>1, <2>2 DEF CommitDecide, LogStep, StatusAfter, Decided
<1>9. CASE CommitSendBack(h, i)
  <2>1. /\ timeline' = [timeline EXCEPT ![i] = Append(@, "sent_back")] /\ pc[h] = "write"
        /\ requests'[i] = [requests[i] EXCEPT !.status = "sent_back", !.decidedBy = job[h].who]
        /\ \A j \in Ids \ {i} : requests'[j] = requests[j]
    BY <1>2, <1>9 DEF CommitSendBack
  <2>2. /\ requests'[i] \in Row /\ requests'[i].status = "sent_back"
        /\ requests'[i].decidedBy \in Employees
    BY <2>1, <1>4, <1>9, JobFields DEF CommitSendBack, Row, Statuses, Open
  <2>3. LogStep(i, "sent_back")
    BY <1>4, <1>9, <2>1, <2>2 DEF CommitSendBack, LogStep, StatusAfter
  <2> QED BY <1>3, <1>9, <2>3 DEF CommitSendBack, Events
<1> QED BY <1>1, <1>3, <1>5, <1>6, <1>7, <1>8, <1>9 DEF Events

\* Only a commit touches the tables: every other step of the server leaves the
\* requests and their timelines as they were.
LEMMA OnlyCommitsWrite ==
  ASSUME TypeOK, [Next]_vars
  PROVE  (\E h \in Handlers : CommitSome(h)) \/ UNCHANGED db
<1>1. ASSUME NEW h \in Handlers, Start(h) PROVE UNCHANGED db
  BY <1>1, StartEffect DEF db
<1>2. ASSUME NEW h \in Handlers, Rollback(h) PROVE UNCHANGED db
  BY <1>2 DEF Rollback, db
<1> QED BY StepCases, <1>1, <1>2
        DEF TakeAdvisoryLock, LockRow, CheckDuplicates, Notify, Fail, SetApprovers, Restart, vars, db

\* The event a commit appends is one the status before it allows, and the status
\* before it is the one the timeline ended in: the history stays true.
LEMMA LogStepKeepsHistory ==
  ASSUME TypeOK, HistoryIsTrue, NEW i \in Ids, NEW event \in Events, LogStep(i, event)
  PROVE  HistoryIsTrue'
<1> DEFINE t == timeline[i]
           u == timeline'[i]
<1>1. /\ t \in Seq(Events) /\ u = Append(t, event)
      /\ \A j \in Ids \ {i} : timeline'[j] = timeline[j] /\ requests'[j] = requests[j]
  BY DEF TypeOK, LogStep
<1>2. /\ Len(t) \in Nat /\ Len(u) = Len(t) + 1 /\ u[Len(t) + 1] = event /\ u # <<>>
      /\ \A n \in 1..Len(t) : u[n] = t[n]
  BY <1>1, AppendProperties
<1>3. Exists(i) <=> t # <<>>
  BY DEF HistoryIsTrue, TimelineIsHistory
<1>4. Len(t) = 0 <=> t = <<>>
  BY <1>1
<1>5. Exists(i)'
  BY DEF LogStep, Exists
<1>6. u[1] = "raised"
  <2>1. CASE t = <<>>
    BY <1>2, <1>3, <1>4, <2>1 DEF LogStep
  <2>2. CASE t # <<>>
    BY <1>2, <1>3, <1>4, <2>2 DEF HistoryIsTrue, TimelineIsHistory
  <2> QED BY <2>1, <2>2
<1>7. requests'[i].status = StatusAfter(u[Len(u)])
  BY <1>2 DEF LogStep
<1>8. ASSUME NEW n \in 2..Len(u)
      PROVE  \/ u[n] \in Decided \cup {"sent_back"} /\ StatusAfter(u[n-1]) = "pending"
             \/ u[n] = "resubmitted" /\ u[n-1] = "sent_back"
             \/ u[n] = "cancelled" /\ StatusAfter(u[n-1]) \in Open
  <2>1. CASE n \in 2..Len(t)
    <3>1. u[n] = t[n] /\ u[n-1] = t[n-1]
      BY <1>2, <2>1
    <3>2. \/ t[n] \in Decided \cup {"sent_back"} /\ StatusAfter(t[n-1]) = "pending"
          \/ t[n] = "resubmitted" /\ t[n-1] = "sent_back"
          \/ t[n] = "cancelled" /\ StatusAfter(t[n-1]) \in Open
      BY <2>1 DEF HistoryIsTrue, TimelineIsHistory
    <3> QED BY <3>1, <3>2
  <2>2. CASE n = Len(t) + 1
    <3>1. Len(t) > 0 /\ u[n] = event /\ u[n-1] = t[Len(t)]
      BY <1>2, <2>2
    <3>2. Exists(i) /\ requests[i].status = StatusAfter(t[Len(t)])
      BY <1>3, <1>4, <3>1 DEF HistoryIsTrue, TimelineIsHistory
    <3> QED BY <3>1, <3>2 DEF LogStep, StatusAfter
  <2> QED BY <1>2, <2>1, <2>2
<1>9. TimelineIsHistory'
  <2>1. ASSUME NEW j \in Ids, j # i
        PROVE  LET s == timeline'[j] IN
               /\ requests'[j] # Absent <=> s # <<>>
               /\ requests'[j] # Absent => /\ s[1] = "raised"
                                           /\ requests'[j].status = StatusAfter(s[Len(s)])
               /\ \A n \in 2..Len(s) :
                     \/ s[n] \in Decided \cup {"sent_back"} /\ StatusAfter(s[n-1]) = "pending"
                     \/ s[n] = "resubmitted" /\ s[n-1] = "sent_back"
                     \/ s[n] = "cancelled" /\ StatusAfter(s[n-1]) \in Open
    BY <1>1, <2>1 DEF HistoryIsTrue, TimelineIsHistory, Exists
  <2> QED BY <1>2, <1>5, <1>6, <1>7, <1>8, <2>1 DEF TimelineIsHistory, Exists
<1>10. DeciderMatchesStatus'
  <2>1. ASSUME NEW j \in Ids, j # i, Exists(j)'
        PROVE  /\ requests'[j].status = "pending" => requests'[j].decidedBy = Nobody
               /\ requests'[j].status \in Decided \cup {"sent_back"} => requests'[j].decidedBy # Nobody
    BY <1>1, <2>1 DEF HistoryIsTrue, DeciderMatchesStatus, Exists
  <2>2. /\ requests'[i].status = "pending" => requests'[i].decidedBy = Nobody
        /\ requests'[i].status \in Decided \cup {"sent_back"} => requests'[i].decidedBy # Nobody
    BY RoutingData DEF LogStep, StatusAfter, Decided
  <2> QED BY <2>1, <2>2 DEF DeciderMatchesStatus
<1> QED BY <1>9, <1>10 DEF HistoryIsTrue

LEMMA StepHistory == IInv /\ HistoryIsTrue /\ [Next]_vars => HistoryIsTrue'
<1> SUFFICES ASSUME IInv, HistoryIsTrue, [Next]_vars PROVE HistoryIsTrue'
  OBVIOUS
<1>1. ASSUME NEW h \in Handlers, CommitSome(h) PROVE HistoryIsTrue'
  BY <1>1, CommitIsLogStep, LogStepKeepsHistory DEF IInv, ChecksStayValid
<1>2. CASE UNCHANGED db
  BY <1>2 DEF db, HistoryIsTrue, TimelineIsHistory, DeciderMatchesStatus, Exists
<1> QED BY <1>1, <1>2, OnlyCommitsWrite DEF IInv

\* However decisions, send-backs, resubmits and cancellations race, the timeline a
\* request shows is a path of the lifecycle diagram that ends in its status, and
\* its decision columns agree with it.
THEOREM HistoriesAreTrue == Spec => []HistoryIsTrue
<1>1. Init => HistoryIsTrue
  BY DEF Init, HistoryIsTrue, TimelineIsHistory, DeciderMatchesStatus, Exists
<1> QED BY <1>1, StepHistory, Inductive, PTL DEF Spec

\* A handler on its way to its notification got there by the commit of that event,
\* and timelines only grow.
LEMMA StepNotifies == IInv /\ NotifiesOnlyCommitted /\ [Next]_vars => NotifiesOnlyCommitted'
<1> SUFFICES ASSUME IInv, NotifiesOnlyCommitted, [Next]_vars,
                    NEW g \in Handlers, pc'[g] = "notify"
             PROVE  \E n \in 1..Len(timeline'[job'[g].id]) :
                       timeline'[job'[g].id][n] = job'[g].event
  BY DEF NotifiesOnlyCommitted
<1> USE DEF IInv, TypeOK
<1>1. ASSUME NEW h \in Handlers, CommitSome(h)
      PROVE  \E n \in 1..Len(timeline'[job'[g].id]) : timeline'[job'[g].id][n] = job'[g].event
  <2>1. PICK i \in Ids, event \in Events :
          /\ LogStep(i, event)
          /\ pc'[h] = "notify" => job'[h].id = i /\ job'[h].event = event
    BY <1>1, CommitIsLogStep DEF ChecksStayValid
  <2>2. /\ Len(timeline[i]) \in Nat /\ Len(timeline'[i]) = Len(timeline[i]) + 1
        /\ timeline'[i][Len(timeline[i]) + 1] = event
        /\ \A n \in 1..Len(timeline[i]) : timeline'[i][n] = timeline[i][n]
    BY <2>1, AppendProperties DEF LogStep
  <2>3. CASE g = h
    <3>1. job'[g].id = i /\ job'[g].event = event
      BY <2>1, <2>3
    <3>2. Len(timeline[i]) + 1 \in 1..Len(timeline'[i])
      BY <2>2
    <3> QED BY <2>2, <3>1, <3>2
  <2>4. CASE g # h
    <3>1. pc[g] = "notify" /\ job'[g] = job[g]
      BY <1>1, <2>4, CommitEffect
    <3>2. job[g].id \in Ids
      BY <3>1, JobFields DEF OpMatchesPc
    <3>3. PICK n \in 1..Len(timeline[job[g].id]) : timeline[job[g].id][n] = job[g].event
      BY <3>1 DEF NotifiesOnlyCommitted
    <3>4. CASE job[g].id = i
      BY <2>2, <3>1, <3>3, <3>4
    <3>5. CASE job[g].id # i
      BY <2>1, <3>1, <3>2, <3>3, <3>5 DEF LogStep
    <3> QED BY <3>4, <3>5
  <2> QED BY <2>3, <2>4
<1>2. CASE UNCHANGED timeline /\ pc[g] = "notify" /\ job'[g] = job[g]
  BY <1>2 DEF NotifiesOnlyCommitted
<1>3. ASSUME NEW h \in Handlers, Rollback(h) PROVE UNCHANGED timeline /\ pc[g] = "notify" /\ job'[g] = job[g]
  BY <1>3, RollbackEffect
<1>4. \/ \E h \in Handlers : CommitSome(h)
      \/ UNCHANGED timeline /\ pc[g] = "notify" /\ job'[g] = job[g]
  <2>1. ASSUME NEW h \in Handlers, Start(h)
        PROVE  UNCHANGED timeline /\ pc[g] = "notify" /\ job'[g] = job[g]
    BY <2>1, StartEffect
  <2>2. ASSUME NEW h \in Handlers, NEW label \in {"check", "row", "write"}, Goto(h, label)
        PROVE  pc[g] = "notify" /\ job'[g] = job[g]
    BY <2>2 DEF Goto
  <2>3. ASSUME NEW h \in Handlers, TakeAdvisoryLock(h)
        PROVE  UNCHANGED timeline /\ pc[g] = "notify" /\ job'[g] = job[g]
    BY <2>2, <2>3 DEF TakeAdvisoryLock, db
  <2>4. ASSUME NEW h \in Handlers, LockRow(h)
        PROVE  UNCHANGED timeline /\ pc[g] = "notify" /\ job'[g] = job[g]
    BY <1>3, <2>2, <2>4 DEF LockRow, db
  <2>5. ASSUME NEW h \in Handlers, CheckDuplicates(h)
        PROVE  UNCHANGED timeline /\ pc[g] = "notify" /\ job'[g] = job[g]
    BY <1>3, <2>2, <2>5 DEF CheckDuplicates, db
  <2>6. ASSUME NEW h \in Handlers, Notify(h)
        PROVE  UNCHANGED timeline /\ pc[g] = "notify" /\ job'[g] = job[g]
    BY <2>6 DEF Notify, Finish, db
  <2>7. ASSUME NEW h \in Handlers, Fail(h)
        PROVE  UNCHANGED timeline /\ pc[g] = "notify" /\ job'[g] = job[g]
    BY <1>3, <2>7 DEF Fail
  <2>8. ~Restart
    BY DEF Restart
  <2> QED BY StepCases, <2>1, <2>3, <2>4, <2>5, <2>6, <2>7, <2>8 DEF SetApprovers, vars, db
<1> QED BY <1>1, <1>2, <1>4

\* Whatever fails, rolls back or restarts, a handler that reaches its notification
\* announces an event that is in the committed timeline.
THEOREM NotificationsAreCommitted == Spec => []NotifiesOnlyCommitted
<1>1. Init => NotifiesOnlyCommitted
  BY DEF Init, NotifiesOnlyCommitted
<1> QED BY <1>1, StepNotifies, Inductive, PTL DEF Spec
=============================================================================
