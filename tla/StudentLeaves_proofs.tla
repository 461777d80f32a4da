------------------------- MODULE StudentLeaves_proofs -------------------------
(***************************************************************************)
(* Theorems about student leaves, for every number of students, leaves,    *)
(* handlers and class periods.                                             *)
(***************************************************************************)
EXTENDS StudentLeaves, ApprovalRequests_proofs

\* A leave request asks what its type asks for and for the student who raised it,
\* unless it came back through the profile's route.
RowFits(i) ==
  Exists(i) => \/ requests[i].payload.type = "profile_update"
               \/ /\ requests[i].payload.type = requests[i].type
                  /\ requests[i].payload.student = requests[i].requester
RowsFit == \A i \in Ids : RowFits(i)

\* Students ask for themselves, and only the student of a leave revises it.
JobFits(h) ==
  /\ job[h].op \in {"create", "resubmit"} => job[h].payload.student = job[h].who
  /\ job[h].op = "resubmit" =>
       \/ job[h].payload.type = "profile_update"
       \/ /\ job[h].payload.type = "leave_apply"
          /\ leaves[job[h].id] # Absent
          /\ leaves[job[h].id].student = job[h].who
JobsFit == \A h \in Handlers : JobFits(h)

\* What a submitter of an application has found is still so when it writes: no
\* standing leave of the student covers a slot it asks for, its own excepted.
SlotsAreFree(h) ==
  pc[h] = "write" /\ job[h].op \in {"create", "resubmit"} /\ job[h].payload.type = "leave_apply" =>
    \A l \in Ids : Overlaps(job[h].payload, l) => job[h].op = "resubmit" /\ l = job[h].id

LeavesAreFree == \A h \in Handlers : SlotsAreFree(h)

LInv == /\ IInv /\ LeaveTypeOK /\ RowsFit /\ JobsFit
        /\ LeavesInLockStep /\ LeavesAreFree /\ NoOverlappingLeaves

-----------------------------------------------------------------------------
(* What each commit does to the one request and the one leave it writes *)

RowTo(i, status) ==
  /\ requests[i] # Absent /\ requests'[i] # Absent
  /\ requests'[i].status = status
  /\ requests'[i].type = requests[i].type
  /\ requests'[i].payload = requests[i].payload
  /\ requests'[i].requester = requests[i].requester

NewRow(h, i, type) ==
  /\ job[h].op = "create" /\ job[h].payload.type = type
  /\ requests[i] = Absent /\ requests'[i] # Absent
  /\ requests'[i].status = "pending" /\ requests'[i].type = type
  /\ requests'[i].payload = job[h].payload
  /\ requests'[i].requester = job[h].who

LeaveTo(l, status, range) ==
  /\ leaves[l] # Absent /\ leaves'[l] # Absent
  /\ leaves'[l].status = status
  /\ leaves'[l].range = range
  /\ leaves'[l].student = leaves[l].student

Applied(h, i) ==
  /\ NewRow(h, i, "leave_apply")
  /\ leaves'[i] # Absent
  /\ leaves'[i].status = "pending" /\ leaves'[i].cancelRequest = Absent
  /\ leaves'[i].range = job[h].payload.range
  /\ leaves'[i].student = job[h].who

CancelAsked(h, i, l) ==
  /\ NewRow(h, i, "leave_cancel") /\ job[h].payload.leave = l
  /\ leaves[l].status = "approved"
  /\ LeaveTo(l, "cancel_requested", leaves[l].range)
  /\ leaves'[l].cancelRequest = i

CameBack(h, i) ==
  /\ job[h].op = "resubmit" /\ i = job[h].id
  /\ requests[i] # Absent /\ requests'[i] # Absent
  /\ requests[i].status = "sent_back" /\ requests'[i].status = "pending"
  /\ requests'[i].type = requests[i].type
  /\ requests'[i].payload = job[h].payload
  /\ requests'[i].requester = requests[i].requester

\* Through the profile's route: no leave moves.
Crossed(h, i) ==
  /\ CameBack(h, i) /\ job[h].payload.type = "profile_update"
  /\ leaves'[i] = leaves[i]

Revised(h, i) ==
  /\ CameBack(h, i) /\ job[h].payload.type = "leave_apply"
  /\ requests[i].type = "leave_apply"
  /\ leaves[i].status = "pending"
  /\ LeaveTo(i, "pending", job[h].payload.range)
  /\ leaves'[i].cancelRequest = leaves[i].cancelRequest

ApplicationTo(i, status, leaveStatus) ==
  /\ requests[i].type = "leave_apply" /\ requests[i].status \in Open
  /\ leaves[i].status = "pending"
  /\ RowTo(i, status)
  /\ LeaveTo(i, leaveStatus, leaves[i].range)
  /\ leaves'[i].cancelRequest = leaves[i].cancelRequest

CancellationTo(i, l, status, leaveStatus) ==
  /\ requests[i].type = "leave_cancel" /\ requests[i].status \in Open
  /\ leaves[l].status = "cancel_requested" /\ leaves[l].cancelRequest = i
  /\ RowTo(i, status)
  /\ LeaveTo(l, leaveStatus, leaves[l].range)
  /\ leaves'[l].cancelRequest = i \/ (leaveStatus = "approved" /\ leaves'[l].cancelRequest = Absent)

\* Request i and leave l move together.
Moves(h, i, l) ==
  \/ Applied(h, i) /\ l = i
  \/ CancelAsked(h, i, l)
  \/ (Revised(h, i) \/ Crossed(h, i)) /\ l = i
  \/ l = i /\ ApplicationTo(i, "cancelled", "withdrawn")
  \/ l = i /\ \E verdict \in Decided : ApplicationTo(i, verdict, verdict)
  \/ CancellationTo(i, l, "cancelled", "approved")
  \/ CancellationTo(i, l, "approved", "cancelled")
  \/ CancellationTo(i, l, "rejected", "approved")

\* Nothing else moves, and the table of leaves stays well-formed.
OnlyTheseMove(i, l) == /\ \A j \in Ids \ {i} : requests'[j] = requests[j]
                       /\ \A m \in Ids \ {l} : leaves'[m] = leaves[m]
                       /\ leaves' \in [Ids -> Leave \cup {Absent}]

\* What a handler may rely on when it writes the request it has locked.
LEMMA WriterKnows ==
  ASSUME LInv, NEW h \in Handlers, pc[h] = "write", NEW i \in Ids, i = job[h].id,
         job[h].op \in {"resubmit", "cancel", "decide", "sendBack"}
  PROVE  /\ requests[i] # Absent /\ requests[i] \in Row /\ Exists(i)
         /\ job[h].op = "resubmit" => requests[i].status = "sent_back"
         /\ job[h].op = "cancel" => requests[i].status \in Open
         /\ job[h].op \in {"decide", "sendBack"} => requests[i].status = "pending"
  BY DEF LInv, IInv, TypeOK, ChecksStayValid, RowIsAsChecked, HoldsRow, Exists

\* Payloads are applications, cancellations or profile updates.
LEMMA PayloadTypes ==
  ASSUME NEW c \in Payloads
  PROVE  /\ c.student \in Requesters
         /\ c.type = "leave_apply" => c.range \in Ranges
         /\ c.type = "leave_cancel" => c.leave \in Ids
         /\ c.type \in {"leave_apply", "leave_cancel", "profile_update"}
         /\ TypeOf[c] = c.type
  BY LeaveTypes DEF Applications, Cancellations, ProfileUpdates

\* An application makes a pending request and a pending leave.
LEMMA ApplyMoves ==
  ASSUME LInv, NEW h \in Handlers, NEW i \in Ids, RaiseApplication(h, i)
  PROVE  pc[h] = "write" /\ Moves(h, i, i) /\ OnlyTheseMove(i, i)
<1>0. TypeOK /\ leaves \in [Ids -> Leave \cup {Absent}] /\ job[h] \in Jobs
  BY DEF LInv, LeaveTypeOK, TypeOK
<1>1. /\ job[h].op = "create" /\ requests[i] = Absent /\ pc[h] = "write"
      /\ requests' = [requests EXCEPT ![i] =
           [type |-> TypeOf[job[h].payload], status |-> "pending",
            requester |-> job[h].who, scope |-> RouteOf[job[h].who],
            payload |-> job[h].payload, decidedBy |-> Nobody]]
      /\ job[h].payload.type = "leave_apply"
  BY DEF RaiseApplication, CommitCreate, Commit, Exists
<1>2. job[h].who \in Requesters /\ job[h].payload \in Payloads
  BY <1>0, <1>1, JobFields
<1>3. requests'[i] # Absent
  BY <1>0, <1>1, <1>2, RoutingData DEF Row, Statuses, Open, TypeOK
<1>4. leaves'[i] # Absent /\ leaves'[i] \in Leave
  <2>1. leaves'[i] = [student |-> job[h].who, range |-> job[h].payload.range,
                      status |-> "pending", cancelRequest |-> Absent]
    BY <1>0 DEF RaiseApplication
  <2>2. job[h].payload.range \in Ranges
    BY <1>1, <1>2, PayloadTypes
  <2>3. leaves'[i] \in Leave
    BY <1>2, <2>1, <2>2 DEF Leave, LeaveStatuses, Blocking
  <2> QED BY <2>3, LeaveTypes
<1>5. NewRow(h, i, "leave_apply")
  BY <1>0, <1>1, <1>2, <1>3, PayloadTypes DEF NewRow, TypeOK
<1>6. Applied(h, i)
  BY <1>0, <1>4, <1>5 DEF Applied, RaiseApplication
<1>7. OnlyTheseMove(i, i)
  BY <1>0, <1>1, <1>4 DEF OnlyTheseMove, RaiseApplication, TypeOK
<1> QED BY <1>1, <1>6, <1>7 DEF Moves

\* A cancellation is raised for an approved leave, which then names it.
LEMMA AskMoves ==
  ASSUME LInv, NEW h \in Handlers, NEW i \in Ids, RaiseCancellation(h, i)
  PROVE  /\ pc[h] = "write" /\ job[h].payload.leave \in Ids
         /\ Moves(h, i, job[h].payload.leave) /\ OnlyTheseMove(i, job[h].payload.leave)
<1> DEFINE l == job[h].payload.leave
<1>0. TypeOK /\ leaves \in [Ids -> Leave \cup {Absent}] /\ job[h] \in Jobs
  BY DEF LInv, LeaveTypeOK, TypeOK
<1>1. /\ job[h].op = "create" /\ requests[i] = Absent /\ pc[h] = "write"
      /\ requests' = [requests EXCEPT ![i] =
           [type |-> TypeOf[job[h].payload], status |-> "pending",
            requester |-> job[h].who, scope |-> RouteOf[job[h].who],
            payload |-> job[h].payload, decidedBy |-> Nobody]]
      /\ job[h].payload.type = "leave_cancel"
      /\ leaves[l] # Absent /\ leaves[l].status = "approved"
      /\ leaves' = [leaves EXCEPT ![l] = [@ EXCEPT !.status = "cancel_requested",
                                                   !.cancelRequest = i]]
  BY DEF RaiseCancellation, CommitCreate, Commit, Exists, HasStatus
<1>2. job[h].who \in Requesters /\ job[h].payload \in Payloads
  BY <1>0, <1>1, JobFields
<1>3. l \in Ids
  BY <1>1, <1>2, PayloadTypes
<1>4. requests'[i] # Absent
  BY <1>0, <1>1, <1>2, RoutingData DEF Row, Statuses, Open, TypeOK
<1>5. NewRow(h, i, "leave_cancel")
  BY <1>0, <1>1, <1>2, <1>4, PayloadTypes DEF NewRow, TypeOK
<1>6. leaves[l] \in Leave
  BY <1>0, <1>1, <1>3
<1>7. /\ leaves'[l].status = "cancel_requested" /\ leaves'[l].cancelRequest = i
      /\ leaves'[l].range = leaves[l].range /\ leaves'[l].student = leaves[l].student
      /\ leaves'[l] \in Leave
  BY <1>0, <1>1, <1>3, <1>6 DEF Leave, LeaveStatuses, Blocking
<1>8. CancelAsked(h, i, l)
  BY <1>1, <1>5, <1>7, LeaveTypes DEF CancelAsked, LeaveTo
<1>9. OnlyTheseMove(i, l)
  BY <1>0, <1>1, <1>3, <1>7 DEF OnlyTheseMove, TypeOK
<1> QED BY <1>1, <1>3, <1>8, <1>9 DEF Moves

\* A revision moves the dates of the request and of its pending leave alike; what
\* comes back through the profile's route moves no leave.
LEMMA ReviseMoves ==
  ASSUME LInv, NEW h \in Handlers, NEW i \in Ids, Revise(h, i)
  PROVE  pc[h] = "write" /\ Moves(h, i, i) /\ OnlyTheseMove(i, i)
<1>0. TypeOK /\ leaves \in [Ids -> Leave \cup {Absent}] /\ job[h] \in Jobs
  BY DEF LInv, LeaveTypeOK, TypeOK
<1>1. /\ job[h].op = "resubmit" /\ i = job[h].id /\ pc[h] = "write"
      /\ requests' = [requests EXCEPT ![i] =
           [requests[i] EXCEPT !.status = "pending", !.payload = job[h].payload,
                               !.decidedBy = Nobody]]
  BY DEF Revise, CommitResubmit, Commit
<1>2. requests[i] # Absent /\ requests[i] \in Row /\ Exists(i) /\ requests[i].status = "sent_back"
  BY <1>1, WriterKnows
<1>3. job[h].payload \in Payloads
  BY <1>0, <1>1, JobFields
<1>4. /\ requests'[i].status = "pending" /\ requests'[i].payload = job[h].payload
      /\ requests'[i].type = requests[i].type
      /\ requests'[i].requester = requests[i].requester /\ requests'[i] \in Row
  BY <1>0, <1>1, <1>2, <1>3 DEF TypeOK, Row, Statuses, Open
<1>5. CameBack(h, i) /\ \A j \in Ids \ {i} : requests'[j] = requests[j]
  BY <1>0, <1>1, <1>2, <1>4, RoutingData DEF CameBack, TypeOK
<1>6. CASE job[h].payload.type = "profile_update"
  <2>1. leaves' = leaves
    BY <1>6 DEF Revise
  <2> QED BY <1>0, <1>1, <1>5, <1>6, <2>1 DEF Crossed, Moves, OnlyTheseMove
<1>7. CASE job[h].payload.type = "leave_apply"
  <2>1. leaves[i] # Absent
    BY <1>1, <1>7 DEF LInv, JobsFit, JobFits
  <2>2. IsOf(i, "leave_apply") /\ leaves[i].status = "pending"
    BY <1>2, <2>1 DEF LInv, LeavesInLockStep, ApplicationInStep, IsOpen, Open
  <2>3. leaves' = [leaves EXCEPT ![i] = [@ EXCEPT !.range = job[h].payload.range]]
    BY <1>7, <2>1, <2>2 DEF Revise, HasStatus
  <2>4. leaves[i] \in Leave /\ job[h].payload.range \in Ranges
    BY <1>0, <1>3, <1>7, <2>1, PayloadTypes
  <2>5. /\ leaves'[i].status = "pending" /\ leaves'[i].cancelRequest = leaves[i].cancelRequest
        /\ leaves'[i].range = job[h].payload.range /\ leaves'[i].student = leaves[i].student
        /\ leaves'[i] \in Leave
    BY <1>0, <2>2, <2>3, <2>4 DEF Leave
  <2>6. Revised(h, i)
    BY <1>5, <1>7, <2>1, <2>2, <2>5, LeaveTypes DEF Revised, LeaveTo, IsOf
  <2>7. OnlyTheseMove(i, i)
    BY <1>0, <1>5, <2>3, <2>5 DEF OnlyTheseMove
  <2> QED BY <1>1, <2>6, <2>7 DEF Moves
<1> QED BY <1>1, <1>6, <1>7 DEF LInv, JobsFit, JobFits

\* A cancel or a decision moves its request and keeps what it asks for.
LEMMA RowMoves ==
  ASSUME LInv, NEW h \in Handlers, NEW i \in Ids, NEW verdict \in Decided,
         CommitCancel(h, i) \/ CommitDecide(h, i, verdict)
  PROVE  /\ pc[h] = "write" /\ requests[i].status \in Open
         /\ requests[i] \in Row /\ Exists(i)
         /\ CommitCancel(h, i) => RowTo(i, "cancelled")
         /\ CommitDecide(h, i, verdict) => RowTo(i, verdict)
         /\ \A j \in Ids \ {i} : requests'[j] = requests[j]
<1>0. TypeOK /\ job[h] \in Jobs
  BY DEF LInv, LeaveTypeOK, TypeOK
<1>1. CASE CommitCancel(h, i)
  <2>1. /\ job[h].op = "cancel" /\ i = job[h].id /\ pc[h] = "write"
        /\ requests' = [requests EXCEPT ![i] = [requests[i] EXCEPT !.status = "cancelled"]]
    BY <1>1 DEF CommitCancel, Commit
  <2>2. requests[i] # Absent /\ requests[i] \in Row /\ Exists(i) /\ requests[i].status \in Open
    BY <2>1, WriterKnows
  <2>3. RowTo(i, "cancelled")
    <3>1. /\ requests'[i].status = "cancelled" /\ requests'[i].payload = requests[i].payload
          /\ requests'[i].type = requests[i].type
          /\ requests'[i].requester = requests[i].requester /\ requests'[i] \in Row
      BY <1>0, <2>1, <2>2 DEF TypeOK, Row, Statuses
    <3> QED BY <2>2, <3>1, RoutingData DEF RowTo
  <2>4. ~CommitDecide(h, i, verdict)
    BY <2>1 DEF CommitDecide
  <2> QED BY <1>0, <2>1, <2>2, <2>3, <2>4 DEF TypeOK
<1>2. CASE CommitDecide(h, i, verdict)
  <2>1. /\ job[h].op = "decide" /\ i = job[h].id /\ pc[h] = "write"
        /\ requests' = [requests EXCEPT ![i] = [requests[i] EXCEPT !.status = verdict,
                                                                   !.decidedBy = job[h].who]]
    BY <1>2 DEF CommitDecide, Commit
  <2>2. requests[i] # Absent /\ requests[i] \in Row /\ Exists(i) /\ requests[i].status \in Open
    BY <2>1, WriterKnows DEF Open
  <2>3. RowTo(i, verdict)
    <3>1. /\ requests'[i].status = verdict /\ requests'[i].payload = requests[i].payload
          /\ requests'[i].type = requests[i].type
          /\ requests'[i].requester = requests[i].requester /\ requests'[i] \in Row
      BY <1>0, <2>1, <2>2, JobFields DEF TypeOK, Row, Statuses
    <3> QED BY <2>2, <3>1, RoutingData DEF RowTo
  <2>4. ~CommitCancel(h, i)
    BY <2>1 DEF CommitCancel
  <2> QED BY <1>0, <2>1, <2>2, <2>3, <2>4 DEF TypeOK
<1> QED BY <1>1, <1>2

\* Withdrawing or deciding an application moves its leave, which was pending.
LEMMA ApplicationMoves ==
  ASSUME LInv, NEW h \in Handlers, NEW i \in Ids, NEW verdict \in Decided,
         WithdrawApplication(h, i) \/ DecideApplication(h, i, verdict)
  PROVE  pc[h] = "write" /\ Moves(h, i, i) /\ OnlyTheseMove(i, i)
<1>0. TypeOK /\ leaves \in [Ids -> Leave \cup {Absent}]
  BY DEF LInv, LeaveTypeOK
<1>1. /\ pc[h] = "write" /\ requests[i].status \in Open /\ Exists(i)
      /\ IsOf(i, "leave_apply") /\ requests[i].type = "leave_apply"
      /\ WithdrawApplication(h, i) => RowTo(i, "cancelled")
      /\ DecideApplication(h, i, verdict) => RowTo(i, verdict)
      /\ \A j \in Ids \ {i} : requests'[j] = requests[j]
  BY RowMoves DEF WithdrawApplication, DecideApplication, IsOf
<1>2. leaves[i] # Absent /\ leaves[i].status = "pending"
  BY <1>1 DEF LInv, LeavesInLockStep, ApplicationInStep, IsOpen
<1>3. leaves[i] \in Leave
  BY <1>0, <1>2
<1>4. ASSUME NEW status \in LeaveStatuses,
             leaves' = [leaves EXCEPT ![i] = [@ EXCEPT !.status = status]]
      PROVE  /\ LeaveTo(i, status, leaves[i].range)
             /\ leaves'[i].cancelRequest = leaves[i].cancelRequest
             /\ OnlyTheseMove(i, i)
  <2>1. /\ leaves'[i].status = status /\ leaves'[i].range = leaves[i].range
        /\ leaves'[i].student = leaves[i].student /\ leaves'[i] \in Leave
        /\ leaves'[i].cancelRequest = leaves[i].cancelRequest
    BY <1>0, <1>3, <1>4 DEF Leave
  <2>2. OnlyTheseMove(i, i)
    BY <1>0, <1>1, <1>4, <2>1 DEF OnlyTheseMove
  <2> QED BY <1>2, <2>1, <2>2, LeaveTypes DEF LeaveTo
<1>5. CASE WithdrawApplication(h, i)
  <2>1. leaves' = [leaves EXCEPT ![i] = [@ EXCEPT !.status = "withdrawn"]]
    BY <1>2, <1>5 DEF WithdrawApplication, HasStatus
  <2>2. ApplicationTo(i, "cancelled", "withdrawn") /\ OnlyTheseMove(i, i)
    BY <1>1, <1>2, <1>4, <1>5, <2>1 DEF ApplicationTo, LeaveStatuses
  <2> QED BY <1>1, <2>2 DEF Moves
<1>6. CASE DecideApplication(h, i, verdict)
  <2>1. leaves' = [leaves EXCEPT ![i] = [@ EXCEPT !.status = verdict]]
    BY <1>6 DEF DecideApplication
  <2>2. ApplicationTo(i, verdict, verdict) /\ OnlyTheseMove(i, i)
    BY <1>1, <1>2, <1>4, <1>6, <2>1 DEF ApplicationTo, LeaveStatuses, Blocking, Decided
  <2> QED BY <1>1, <2>2 DEF Moves
<1> QED BY <1>5, <1>6

\* Withdrawing or deciding a cancellation moves the one leave that awaits it.
LEMMA CancellationMoves ==
  ASSUME LInv, NEW h \in Handlers, NEW i \in Ids, NEW verdict \in Decided,
         WithdrawCancellation(h, i) \/ DecideCancellation(h, i, verdict)
  PROVE  pc[h] = "write" /\ \E l \in Ids : Moves(h, i, l) /\ OnlyTheseMove(i, l)
<1>0. TypeOK /\ leaves \in [Ids -> Leave \cup {Absent}]
  BY DEF LInv, LeaveTypeOK
<1>1. /\ pc[h] = "write" /\ requests[i].status \in Open /\ Exists(i)
      /\ IsOf(i, "leave_cancel") /\ requests[i].type = "leave_cancel"
      /\ WithdrawCancellation(h, i) => RowTo(i, "cancelled")
      /\ DecideCancellation(h, i, verdict) => RowTo(i, verdict)
      /\ \A j \in Ids \ {i} : requests'[j] = requests[j]
  BY RowMoves DEF WithdrawCancellation, DecideCancellation, IsOf
<1>2. PICK l \in Ids : AskedToCancel(l, i)
  BY <1>1 DEF LInv, LeavesInLockStep, CancellationInStep, IsOpen
<1>3. leaves[l] # Absent /\ leaves[l].status = "cancel_requested" /\ leaves[l].cancelRequest = i
  BY <1>2 DEF AskedToCancel, HasStatus
<1>4. ASSUME NEW m \in Ids, AskedToCancel(m, i) PROVE m = l
  <2>1. leaves[m] # Absent /\ leaves[m].cancelRequest = i
    BY <1>4 DEF AskedToCancel, HasStatus
  <2>2. i # Absent
    BY LeaveTypes
  <2> QED BY <1>3, <2>1, <2>2 DEF LInv, LeavesInLockStep, NamesItsCancellation
<1>5. leaves[l] \in Leave
  BY <1>0, <1>3
<1>6. CASE WithdrawCancellation(h, i)
  <2>1. /\ leaves'[l] = [leaves[l] EXCEPT !.status = "approved", !.cancelRequest = Absent]
        /\ \A m \in Ids \ {l} : leaves'[m] = leaves[m]
        /\ leaves' = [m \in Ids |-> leaves'[m]]
    BY <1>2, <1>4, <1>6 DEF WithdrawCancellation
  <2>2. /\ leaves'[l].status = "approved" /\ leaves'[l].range = leaves[l].range
        /\ leaves'[l].student = leaves[l].student /\ leaves'[l] \in Leave
        /\ leaves'[l].cancelRequest = Absent
    BY <1>5, <2>1 DEF Leave, LeaveStatuses, Blocking
  <2>3. CancellationTo(i, l, "cancelled", "approved")
    BY <1>1, <1>3, <1>6, <2>2, LeaveTypes DEF CancellationTo, LeaveTo
  <2>4. leaves' \in [Ids -> Leave \cup {Absent}]
    BY <1>0, <2>1, <2>2
  <2>5. Moves(h, i, l) /\ OnlyTheseMove(i, l)
    BY <1>1, <2>1, <2>3, <2>4 DEF Moves, OnlyTheseMove
  <2> QED BY <1>1, <2>5
<1>7. CASE DecideCancellation(h, i, verdict)
  <2> DEFINE status == IF verdict = "approved" THEN "cancelled" ELSE "approved"
  <2>1. leaves' = [leaves EXCEPT ![l] = [@ EXCEPT !.status = status]]
    BY <1>4, <1>7 DEF DecideCancellation
  <2>2. /\ leaves'[l].status = status /\ leaves'[l].range = leaves[l].range
        /\ leaves'[l].student = leaves[l].student /\ leaves'[l] \in Leave
        /\ leaves'[l].cancelRequest = i
    BY <1>0, <1>3, <1>5, <2>1 DEF Leave, LeaveStatuses, Blocking
  <2>3. CancellationTo(i, l, verdict, status)
    BY <1>1, <1>3, <1>7, <2>2, LeaveTypes DEF CancellationTo, LeaveTo
  <2>4. OnlyTheseMove(i, l)
    BY <1>0, <1>1, <2>1, <2>2 DEF OnlyTheseMove
  <2>5. Moves(h, i, l)
    BY <2>3 DEF Moves, Decided
  <2> QED BY <1>1, <2>4, <2>5
<1> QED BY <1>6, <1>7

\* A commit with its hook is a commit of the framework.
LEMMA LeaveCommitIsCommit ==
  ASSUME NEW h \in Handlers, LeaveCommit(h)
  PROVE  CommitSome(h)
  BY DEF LeaveCommit, CommitSome, RaiseApplication, RaiseCancellation, Revise,
         WithdrawApplication, WithdrawCancellation, DecideApplication, DecideCancellation

\* Every commit that touches a leave is one joint move of a request and a leave.
LEMMA CommitMoves ==
  ASSUME LInv, NEW h \in Handlers, LeaveCommit(h)
  PROVE  pc[h] = "write" /\ \E i, l \in Ids : Moves(h, i, l) /\ OnlyTheseMove(i, l)
<1>1. PICK i \in Ids :
        \/ RaiseApplication(h, i)
        \/ RaiseCancellation(h, i)
        \/ Revise(h, i)
        \/ WithdrawApplication(h, i)
        \/ WithdrawCancellation(h, i)
        \/ \E verdict \in Decided : DecideApplication(h, i, verdict)
                                      \/ DecideCancellation(h, i, verdict)
  BY DEF LeaveCommit
<1>2. CASE RaiseApplication(h, i)
  BY <1>2, ApplyMoves
<1>3. CASE RaiseCancellation(h, i)
  BY <1>3, AskMoves
<1>4. CASE Revise(h, i)
  BY <1>4, ReviseMoves
<1>5. CASE WithdrawApplication(h, i)
  <2>1. "approved" \in Decided
    BY DEF Decided
  <2> QED BY <1>5, <2>1, ApplicationMoves
<1>6. CASE WithdrawCancellation(h, i)
  <2>1. "approved" \in Decided
    BY DEF Decided
  <2> QED BY <1>6, <2>1, CancellationMoves
<1>7. ASSUME NEW verdict \in Decided, DecideApplication(h, i, verdict)
      PROVE  pc[h] = "write" /\ Moves(h, i, i) /\ OnlyTheseMove(i, i)
  BY <1>7, ApplicationMoves
<1>8. ASSUME NEW verdict \in Decided, DecideCancellation(h, i, verdict)
      PROVE  pc[h] = "write" /\ \E l \in Ids : Moves(h, i, l) /\ OnlyTheseMove(i, l)
  BY <1>8, CancellationMoves
<1> QED BY <1>1, <1>2, <1>3, <1>4, <1>5, <1>6, <1>7, <1>8

-----------------------------------------------------------------------------
(* Joint moves keep requests and leaves in step *)

\* A request goes on asking what its type asks, for the student who raised it.
LEMMA MovesKeepRows ==
  ASSUME LInv, NEW h \in Handlers, NEW i \in Ids, NEW l \in Ids,
         Moves(h, i, l), OnlyTheseMove(i, l)
  PROVE  RowsFit'
<1>1. RowFits(i)'
  <2>1. CASE Applied(h, i) \/ CancelAsked(h, i, l)
    BY <2>1 DEF Applied, CancelAsked, NewRow, LInv, JobsFit, JobFits, RowFits
  <2>2. CASE Revised(h, i)
    <3>1. /\ job[h].payload.student = leaves[i].student
          /\ leaves[i].student = requests[i].requester
      BY <2>2 DEF Revised, CameBack, LeaveTo, LInv, JobsFit, JobFits, LeavesInLockStep,
                  ApplicationInStep, Exists, IsOf
    <3> QED BY <2>2, <3>1 DEF Revised, CameBack, RowFits
  <2>3. CASE Crossed(h, i)
    BY <2>3 DEF Crossed, CameBack, RowFits
  <2>4. CASE \E status : RowTo(i, status)
    BY <2>4 DEF RowTo, LInv, RowsFit, RowFits, Exists
  <2> QED BY <2>1, <2>2, <2>3, <2>4 DEF Moves, ApplicationTo, CancellationTo
<1> QED BY <1>1 DEF OnlyTheseMove, LInv, RowsFit, RowFits, Exists

\* A leave waiting for a cancellation, or ended by one, names it.
Names(l) == leaves[l] # Absent /\ leaves[l].status \in {"cancel_requested", "cancelled"}
              => leaves[l].cancelRequest # Absent

\* Lock-step, request by request and leave by leave.
InStep(i) == ApplicationInStep(i) /\ CancellationInStep(i) /\ NamesItsCancellation(i) /\ Names(i)

LEMMA LockStepParts == LeavesInLockStep <=> \A i \in Ids : InStep(i)
  BY DEF LeavesInLockStep, InStep, Names

LEMMA LockStepPartsNext == LeavesInLockStep' <=> \A i \in Ids : InStep(i)'
  BY DEF LeavesInLockStep, InStep, Names

\* The request a leave names was there before, and no other leave names it.
LEMMA NamedOnce ==
  ASSUME LInv, NEW m \in Ids, NEW i \in Ids, leaves[m] # Absent, leaves[m].cancelRequest = i
  PROVE  /\ requests[i] # Absent /\ requests[i].type = "leave_cancel"
         /\ \A n \in Ids : leaves[n] # Absent /\ leaves[n].cancelRequest = i => n = m
  BY LeaveTypes DEF LInv, LeavesInLockStep, NamesItsCancellation, Exists, IsOf

\* Requests and leaves other than the two that move stay in step when the two do
\* and the leave keeps what it says of every other request.
LEMMA OthersKeepStep ==
  ASSUME LInv, NEW i \in Ids, NEW l \in Ids, OnlyTheseMove(i, l),
         ApplicationInStep(i)', ApplicationInStep(l)', CancellationInStep(i)',
         NamesItsCancellation(l)', Names(l)',
         \A j \in Ids \ {i} : /\ AskedToCancel(l, j)' <=> AskedToCancel(l, j)
                              /\ CancelledBy(l, j)' <=> CancelledBy(l, j),
         requests[i] # Absent =>
           /\ requests'[i] # Absent /\ requests'[i].type = requests[i].type
           /\ \/ requests'[i].payload = requests[i].payload
              \/ requests'[i].payload.type # "leave_cancel"
  PROVE  LeavesInLockStep'
<1>0. \A j \in Ids : InStep(j)
  BY LockStepParts DEF LInv
<1>1. ASSUME NEW j \in Ids PROVE ApplicationInStep(j)'
  <2>1. CASE j # i /\ j # l
    BY <1>0, <2>1 DEF OnlyTheseMove, InStep, ApplicationInStep, Exists, IsOpen, IsOf
  <2> QED BY <2>1
<1>2. ASSUME NEW j \in Ids PROVE CancellationInStep(j)'
  <2>1. CASE j = i
    BY <2>1
  <2>2. CASE j # i
    <3>1. requests'[j] = requests[j]
      BY <2>2 DEF OnlyTheseMove
    <3>2. \A m \in Ids : /\ AskedToCancel(m, j)' <=> AskedToCancel(m, j)
                         /\ CancelledBy(m, j)' <=> CancelledBy(m, j)
      BY <2>2 DEF OnlyTheseMove, AskedToCancel, CancelledBy, HasStatus
    <3> QED BY <1>0, <3>1, <3>2 DEF InStep, CancellationInStep, Exists, IsOpen, IsOf
  <2> QED BY <2>1, <2>2
<1>3. ASSUME NEW m \in Ids PROVE NamesItsCancellation(m)'
  <2> SUFFICES ASSUME m # l, leaves[m] # Absent, leaves[m].cancelRequest # Absent
               PROVE  NamesItsCancellation(m)'
    BY DEF OnlyTheseMove, NamesItsCancellation
  <2> DEFINE k == leaves[m].cancelRequest
  <2>1. k \in Ids
    BY DEF LInv, LeaveTypeOK, Leave
  <2>2. /\ leaves'[m] = leaves[m]
        /\ requests[k] # Absent /\ requests[k].type = "leave_cancel"
        /\ requests[k].payload.type = "leave_cancel" => requests[k].payload.leave = m
        /\ \A n \in Ids : leaves[n] # Absent /\ leaves[n].cancelRequest = k => n = m
    BY <1>0 DEF InStep, NamesItsCancellation, OnlyTheseMove, Exists, IsOf
  <2>3. /\ requests'[k] # Absent /\ requests'[k].type = "leave_cancel"
        /\ requests'[k].payload.type = "leave_cancel" => requests'[k].payload.leave = m
    BY <2>1, <2>2 DEF OnlyTheseMove
  <2>4. ASSUME NEW n \in Ids, leaves'[n] # Absent, leaves'[n].cancelRequest = k PROVE n = m
    <3>1. CASE n = l
      BY <2>2, <2>4, <3>1 DEF NamesItsCancellation
    <3>2. CASE n # l
      BY <2>2, <2>4, <3>2 DEF OnlyTheseMove
    <3> QED BY <3>1, <3>2
  <2> QED BY <2>2, <2>3, <2>4 DEF NamesItsCancellation, Exists, IsOf
<1>4. ASSUME NEW m \in Ids PROVE Names(m)'
  <2>1. CASE m # l
    BY <1>0, <2>1 DEF OnlyTheseMove, InStep, Names
  <2> QED BY <2>1
<1> QED BY <1>1, <1>2, <1>3, <1>4, LockStepPartsNext DEF InStep

\* A request that comes back leaves its leave as it was, or moves its dates along.
LEMMA ComingBackKeepsStep ==
  ASSUME LInv, NEW h \in Handlers, NEW i \in Ids, Revised(h, i) \/ Crossed(h, i),
         OnlyTheseMove(i, i)
  PROVE  LeavesInLockStep'
<1>0. InStep(i)
  BY LockStepParts DEF LInv
<1> USE DEF Exists, IsOpen, IsOf, Open, CameBack, LeaveTo
<1>1. ApplicationInStep(i)'
  BY <1>0 DEF InStep, ApplicationInStep, Revised, Crossed
<1>2. \A m, j \in Ids : /\ AskedToCancel(m, j)' <=> AskedToCancel(m, j)
                        /\ CancelledBy(m, j)' <=> CancelledBy(m, j)
  BY DEF OnlyTheseMove, AskedToCancel, CancelledBy, HasStatus, Revised, Crossed
<1>3. CancellationInStep(i)'
  BY <1>0, <1>2 DEF InStep, CancellationInStep, Revised, Crossed
<1>4. leaves'[i] # Absent => /\ leaves[i] # Absent /\ requests[i].type = "leave_apply"
                             /\ leaves'[i].cancelRequest = leaves[i].cancelRequest
                             /\ leaves'[i].status = leaves[i].status
  BY <1>0 DEF InStep, ApplicationInStep, Revised, Crossed
<1>5. NamesItsCancellation(i)' /\ Names(i)'
  <2> SUFFICES ASSUME leaves'[i] # Absent PROVE NamesItsCancellation(i)' /\ Names(i)'
    BY DEF NamesItsCancellation, Names
  <2> DEFINE k == leaves[i].cancelRequest
  <2>1. k # Absent => /\ k # i /\ k \in Ids
                      /\ requests[k] # Absent /\ requests[k].type = "leave_cancel"
                      /\ requests[k].payload.type = "leave_cancel" => requests[k].payload.leave = i
                      /\ \A m \in Ids : leaves[m] # Absent /\ leaves[m].cancelRequest = k => m = i
    BY <1>0, <1>4 DEF InStep, NamesItsCancellation, LInv, LeaveTypeOK, Leave
  <2> QED BY <1>0, <1>4, <2>1 DEF InStep, Names, NamesItsCancellation, OnlyTheseMove
<1>6. /\ requests[i] # Absent /\ requests'[i] # Absent /\ requests'[i].type = requests[i].type
      /\ requests'[i].payload.type # "leave_cancel"
  BY DEF Revised, Crossed
<1> QED BY <1>1, <1>2, <1>3, <1>5, <1>6, OthersKeepStep

\* Each of the joint moves keeps requests and leaves in step.
LEMMA MovesKeepStep ==
  ASSUME LInv, NEW h \in Handlers, NEW i \in Ids, NEW l \in Ids,
         Moves(h, i, l), OnlyTheseMove(i, l)
  PROVE  LeavesInLockStep'
<1>0. InStep(i) /\ InStep(l) /\ i # Absent
  BY LockStepParts, LeaveTypes DEF LInv
<1> USE DEF Exists, IsOpen, IsOf, AskedToCancel, CancelledBy, HasStatus, Open
<1>1. CASE Applied(h, i) /\ l = i
  <2>1. leaves[i] = Absent
    BY <1>0, <1>1 DEF Applied, NewRow, InStep, ApplicationInStep
  <2>2. ApplicationInStep(i)' /\ CancellationInStep(i)' /\ NamesItsCancellation(i)' /\ Names(i)'
    BY <1>1 DEF Applied, NewRow, ApplicationInStep, CancellationInStep, NamesItsCancellation, Names
  <2> QED BY <1>1, <2>1, <2>2, OthersKeepStep DEF Applied, NewRow
<1>2. CASE CancelAsked(h, i, l)
  <2>1. requests[i] = Absent /\ leaves[i] = Absent /\ l # i
    BY <1>0, <1>2 DEF CancelAsked, NewRow, LeaveTo, InStep, ApplicationInStep
  <2>2. requests'[l] = requests[l] /\ leaves'[i] = leaves[i]
    BY <2>1 DEF OnlyTheseMove
  <2>3. ApplicationInStep(i)' /\ ApplicationInStep(l)'
    BY <1>0, <1>2, <2>1, <2>2 DEF CancelAsked, NewRow, LeaveTo, InStep, ApplicationInStep
  <2>4. \A m \in Ids \ {l} : leaves'[m] # Absent => leaves'[m].cancelRequest # i
    BY <2>1, NamedOnce DEF OnlyTheseMove
  <2>5. CancellationInStep(i)' /\ NamesItsCancellation(l)' /\ Names(l)'
    BY <1>0, <1>2, <2>4 DEF CancelAsked, NewRow, LeaveTo, CancellationInStep, NamesItsCancellation, Names
  <2> QED BY <1>2, <2>1, <2>3, <2>5, OthersKeepStep DEF CancelAsked, NewRow, LeaveTo
<1>3. CASE (Revised(h, i) \/ Crossed(h, i)) /\ l = i
  BY <1>3, ComingBackKeepsStep
<1>4. ASSUME NEW status \in {"cancelled"} \cup Decided, NEW leaveStatus, l = i,
             ApplicationTo(i, status, leaveStatus),
             leaveStatus = IF status = "cancelled" THEN "withdrawn" ELSE status
      PROVE  LeavesInLockStep'
  <2>1. ApplicationInStep(i)' /\ CancellationInStep(i)'
    BY <1>0, <1>4
       DEF ApplicationTo, RowTo, LeaveTo, InStep, ApplicationInStep, CancellationInStep, Decided
  <2>2. NamesItsCancellation(i)' /\ Names(i)'
    <3> DEFINE k == leaves[i].cancelRequest
    <3>1. k # Absent => /\ k # i /\ k \in Ids
                        /\ requests[k] # Absent /\ requests[k].type = "leave_cancel"
                        /\ requests[k].payload.type = "leave_cancel" => requests[k].payload.leave = i
                        /\ \A m \in Ids : leaves[m] # Absent /\ leaves[m].cancelRequest = k => m = i
      BY <1>0, <1>4 DEF ApplicationTo, LeaveTo, InStep, NamesItsCancellation, LInv, LeaveTypeOK, Leave
    <3> QED BY <1>4, <3>1
            DEF ApplicationTo, LeaveTo, Names, NamesItsCancellation, OnlyTheseMove, Decided
  <2> QED BY <1>4, <2>1, <2>2, OthersKeepStep DEF ApplicationTo, RowTo, LeaveTo, Decided
<1>5. ASSUME NEW status, NEW leaveStatus, CancellationTo(i, l, status, leaveStatus),
             \/ status \in {"cancelled", "rejected"} /\ leaveStatus = "approved"
             \/ status = "approved" /\ leaveStatus = "cancelled"
      PROVE  LeavesInLockStep'
  <2>1. leaves[i] = Absent /\ l # i
    BY <1>0, <1>5 DEF CancellationTo, RowTo, LeaveTo, InStep, ApplicationInStep
  <2>2. requests'[l] = requests[l] /\ leaves'[i] = leaves[i]
    BY <2>1 DEF OnlyTheseMove
  <2>3. ApplicationInStep(i)' /\ ApplicationInStep(l)'
    BY <1>0, <1>5, <2>1, <2>2 DEF CancellationTo, RowTo, LeaveTo, InStep, ApplicationInStep
  <2>4. \A m \in Ids \ {l} : leaves'[m] # Absent => leaves'[m].cancelRequest # i
    BY <1>5, NamedOnce DEF OnlyTheseMove, CancellationTo, LeaveTo
  <2>5. CancellationInStep(i)'
    BY <1>0, <1>5, <2>4 DEF CancellationTo, RowTo, LeaveTo, CancellationInStep
  <2>6. NamesItsCancellation(l)' /\ Names(l)'
    BY <1>0, <1>5, <2>4
       DEF CancellationTo, RowTo, LeaveTo, InStep, NamesItsCancellation, Names
  <2> QED BY <1>5, <2>3, <2>5, <2>6, OthersKeepStep DEF CancellationTo, RowTo, LeaveTo
<1> QED BY <1>1, <1>2, <1>3, <1>4, <1>5 DEF Moves, Decided

-----------------------------------------------------------------------------
(* A leave step is a framework step *)

\* Two payloads that claim one item are of one type, for one student or leave.
LEMMA ClaimsMeet ==
  ASSUME NEW c \in Payloads, NEW d \in Payloads, ClaimsOf[c] \cap ClaimsOf[d] # {}
  PROVE  /\ c.type = d.type /\ c.type \in {"leave_apply", "leave_cancel"}
         /\ c.type = "leave_apply" => c.student = d.student /\ c.range \cap d.range # {}
         /\ c.type = "leave_cancel" => c.leave = d.leave
<1>1. PICK x : x \in LeaveClaims(c) /\ x \in LeaveClaims(d)
  BY LeaveTypes
<1>2. \A e \in Payloads : x \in LeaveClaims(e) =>
         \/ /\ e.type = "leave_apply"
            /\ DOMAIN x = {"student", "slot"} /\ x.student = e.student /\ x.slot \in e.range
         \/ e.type = "leave_cancel" /\ DOMAIN x = {"leave"} /\ x.leave = e.leave
  BY PayloadTypes DEF LeaveClaims
<1>3. c.type = d.type
  BY <1>1, <1>2
<1> QED BY <1>1, <1>2, <1>3

\* A check of leave rows that passes finds no open request that clashes.
LEMMA PassedChecksAreClean ==
  ASSUME LInv, NEW h \in Handlers, pc[h] = "check", ~Refuses(h), NEW i \in Ids,
         Clashes(job[h].payload, i)
  PROVE  job[h].op = "resubmit" /\ i = job[h].id
<1> DEFINE c == job[h].payload
           d == requests[i].payload
<1>1. c \in Payloads
  BY JobFields DEF LInv, IInv, TypeOK, OpMatchesPc
<1>2. Exists(i) /\ IsOpen(i) /\ requests[i] \in Row
  BY DEF Clashes, IsOpen, Exists, LInv, IInv, TypeOK
<1>3. d \in Payloads
  BY <1>2 DEF Row
<1>4. ClaimsOf[c] \cap ClaimsOf[d] # {} /\ requests[i].type = d.type
  BY <1>3, PayloadTypes DEF Clashes, Held
<1>5. /\ c.type = d.type
      /\ c.type \in {"leave_apply", "leave_cancel"}
      /\ c.type = "leave_apply" => c.student = d.student /\ c.range \cap d.range # {}
      /\ c.type = "leave_cancel" => c.leave = d.leave
  BY <1>1, <1>3, <1>4, ClaimsMeet
<1>6. CASE c.type = "leave_apply"
  <2>1. /\ leaves[i] # Absent /\ leaves[i].status = "pending"
        /\ leaves[i].student = c.student /\ leaves[i].range = d.range
    BY <1>2, <1>4, <1>5, <1>6 DEF LInv, LeavesInLockStep, ApplicationInStep, RowsFit, RowFits, IsOf
  <2>2. Overlaps(c, i)
    BY <1>5, <1>6, <2>1 DEF Overlaps, Blocking
  <2> QED BY <1>6, <2>2 DEF Refuses
<1>7. CASE c.type = "leave_cancel"
  <2>1. PICK l \in Ids : AskedToCancel(l, i)
    BY <1>2, <1>4, <1>5, <1>7 DEF LInv, LeavesInLockStep, CancellationInStep, IsOf
  <2>2. leaves[l] # Absent /\ leaves[l].status = "cancel_requested" /\ leaves[l].cancelRequest = i
    BY <2>1 DEF AskedToCancel, HasStatus
  <2>3. d.leave = l
    BY <1>5, <1>7, <2>2 DEF LInv, LeavesInLockStep, NamesItsCancellation
  <2>4. ~HasStatus(c.leave, "approved")
    BY <1>5, <1>7, <2>2, <2>3 DEF HasStatus
  <2> QED BY <1>7, <2>4 DEF Refuses
<1> QED BY <1>5, <1>6, <1>7

\* Every step with leaves is a step of the framework, or a stutter of it.
LEMMA LeaveStepIsFrameworkStep ==
  ASSUME LInv, [LeaveNext]_leaveVars
  PROVE  [Next]_vars
<1>1. ASSUME NEW h \in Handlers, LeaveCommit(h) PROVE CommitSome(h)
  BY <1>1, LeaveCommitIsCommit
<1>2. ASSUME NEW h \in Handlers, LeaveStart(h) PROVE Start(h)
  BY <1>2 DEF LeaveStart, Start, StartRaise, StartRevise
<1>3. ASSUME NEW h \in Handlers, CheckLeaves(h) PROVE CheckDuplicates(h) \/ Fail(h)
  <2>1. CASE Refuses(h)
    BY <1>3, <2>1 DEF CheckLeaves, Fail
  <2>2. CASE ~Refuses(h)
    BY <1>3, <2>2, PassedChecksAreClean DEF CheckLeaves, CheckDuplicates
  <2> QED BY <2>1, <2>2
<1>4. CASE \E h \in Handlers : LeaveCommit(h)
  BY <1>1, <1>4 DEF Next, Proceed
<1>5. CASE LeaveUntouched
  <2>1. ASSUME NEW h \in Handlers, NEW i \in Ids, CommitSendBack(h, i) PROVE CommitSome(h)
    BY <2>1 DEF CommitSome
  <2> QED BY <1>2, <1>3, <1>5, <2>1 DEF LeaveUntouched, Next, Proceed
<1>6. CASE UNCHANGED leaveVars
  BY <1>6 DEF leaveVars, vars
<1> QED BY <1>4, <1>5, <1>6 DEF LeaveNext

-----------------------------------------------------------------------------
(* Steps that touch no leave *)

\* A send-back leaves a request open and asking for what it asked.
LEMMA SendBackMoves ==
  ASSUME LInv, NEW h \in Handlers, NEW i \in Ids, CommitSendBack(h, i)
  PROVE  /\ RowTo(i, "sent_back") /\ requests[i].status = "pending"
         /\ \A j \in Ids \ {i} : requests'[j] = requests[j]
<1>0. TypeOK /\ job[h] \in Jobs
  BY DEF LInv, LeaveTypeOK, TypeOK
<1>1. /\ job[h].op = "sendBack" /\ i = job[h].id /\ pc[h] = "write"
      /\ requests' = [requests EXCEPT ![i] = [requests[i] EXCEPT !.status = "sent_back",
                                                                 !.decidedBy = job[h].who]]
  BY DEF CommitSendBack, Commit
<1>2. requests[i] # Absent /\ requests[i] \in Row /\ requests[i].status = "pending"
  BY <1>1, WriterKnows
<1>3. /\ requests'[i].status = "sent_back" /\ requests'[i].payload = requests[i].payload
      /\ requests'[i].type = requests[i].type
      /\ requests'[i].requester = requests[i].requester /\ requests'[i] \in Row
  BY <1>0, <1>1, <1>2, JobFields DEF TypeOK, Row, Statuses, Open
<1> QED BY <1>0, <1>1, <1>2, <1>3, RoutingData DEF RowTo, TypeOK

\* Requests are as they were, but for one that is sent back.
LEMMA UntouchedRows ==
  ASSUME LInv, (LeaveUntouched /\ UNCHANGED leaves) \/ UNCHANGED leaveVars
  PROVE  \/ UNCHANGED requests
         \/ \E i \in Ids : /\ RowTo(i, "sent_back") /\ requests[i].status = "pending"
                           /\ \A j \in Ids \ {i} : requests'[j] = requests[j]
<1>1. ASSUME NEW h \in Handlers, LeaveStart(h) PROVE UNCHANGED requests
  BY <1>1 DEF LeaveStart, StartRaise, StartRevise, StartCreate, StartResubmit, StartCancel,
              StartDecide, StartSendBack, Begin, db
<1>2. ASSUME NEW h \in Handlers, NEW i \in Ids, CommitSendBack(h, i)
      PROVE  /\ RowTo(i, "sent_back") /\ requests[i].status = "pending"
             /\ \A j \in Ids \ {i} : requests'[j] = requests[j]
  BY <1>2, SendBackMoves
<1>3. ASSUME NEW h \in Handlers, TakeAdvisoryLock(h) \/ LockRow(h) \/ CheckLeaves(h) \/ Notify(h) \/ Fail(h)
      PROVE  UNCHANGED requests
  BY <1>3 DEF TakeAdvisoryLock, LockRow, CheckLeaves, Notify, Fail, Rollback, db
<1> QED BY <1>1, <1>2, <1>3 DEF LeaveUntouched, SetApprovers, Restart, leaveVars, vars, db

\* Steps that touch no leave keep everything in step.
LEMMA UntouchedKeepsStep ==
  ASSUME LInv, UNCHANGED leaves, (LeaveUntouched /\ UNCHANGED leaves) \/ UNCHANGED leaveVars
  PROVE  LeavesInLockStep' /\ RowsFit' /\ NoOverlappingLeaves'
<1>1. NoOverlappingLeaves'
  BY DEF LInv, NoOverlappingLeaves
<1> USE DEF Exists, IsOpen, IsOf, AskedToCancel, CancelledBy, HasStatus
<1>0. \A j \in Ids : InStep(j)
  BY LockStepParts DEF LInv
<1>2. CASE UNCHANGED requests
  <2>1. RowsFit'
    BY <1>2 DEF LInv, RowsFit, RowFits
  <2>2. ASSUME NEW j \in Ids PROVE InStep(j)'
    BY <1>0, <1>2 DEF InStep, ApplicationInStep, CancellationInStep, NamesItsCancellation, Names
  <2> QED BY <1>1, <2>1, <2>2, LockStepPartsNext
<1>3. ASSUME NEW i \in Ids, RowTo(i, "sent_back"), requests[i].status = "pending",
             \A j \in Ids \ {i} : requests'[j] = requests[j]
      PROVE  LeavesInLockStep' /\ RowsFit'
  <2>1. RowsFit'
    BY <1>3 DEF RowTo, LInv, RowsFit, RowFits
  <2>2. ASSUME NEW j \in Ids PROVE ApplicationInStep(j)'
    BY <1>0, <1>3 DEF RowTo, InStep, ApplicationInStep, Open
  <2>3. ASSUME NEW j \in Ids PROVE CancellationInStep(j)'
    BY <1>0, <1>3 DEF RowTo, InStep, CancellationInStep, Open
  <2>4. ASSUME NEW l \in Ids PROVE NamesItsCancellation(l)' /\ Names(l)'
    <3>1. \A j \in Ids : requests[j] # Absent =>
            requests'[j] # Absent /\ requests'[j].type = requests[j].type
              /\ requests'[j].payload = requests[j].payload
      BY <1>3 DEF RowTo
    <3>2. leaves[l] # Absent /\ leaves[l].cancelRequest # Absent => leaves[l].cancelRequest \in Ids
      BY DEF LInv, LeaveTypeOK, Leave
    <3> QED BY <1>0, <3>1, <3>2 DEF InStep, NamesItsCancellation, Names
  <2> QED BY <2>1, <2>2, <2>3, <2>4, LockStepPartsNext DEF InStep
<1> QED BY <1>1, <1>2, <1>3, UntouchedRows

-----------------------------------------------------------------------------
(* What handlers know *)

\* A job is kept until it ends; a new submit is for the student who makes it.
LEMMA JobSteps ==
  ASSUME LInv, [LeaveNext]_leaveVars, NEW g \in Handlers
  PROVE  \/ job'[g] = job[g]
         \/ job'[g].op \notin {"create", "resubmit"}
         \/ UNCHANGED leaves /\ JobFits(g)'
<1>0. TypeOK
  BY DEF LInv, LeaveTypeOK
<1>1. ASSUME NEW h \in Handlers, LeaveCommit(h) PROVE job'[g] = job[g] \/ job'[g].op \notin {"create", "resubmit"}
  <2>1. CommitSome(h)
    BY <1>1, LeaveCommitIsCommit
  <2> QED BY <1>0, <2>1, CommitEffect DEF NoJob
<1>2. ASSUME NEW h \in Handlers, NEW i \in Ids, CommitSendBack(h, i)
      PROVE  job'[g] = job[g] \/ job'[g].op \notin {"create", "resubmit"}
  BY <1>0, <1>2 DEF CommitSendBack, Announce, TypeOK
<1>3. ASSUME NEW h \in Handlers, Rollback(h) \/ Notify(h)
      PROVE  job'[g] = job[g] \/ job'[g].op \notin {"create", "resubmit"}
  BY <1>0, <1>3 DEF Rollback, Notify, Finish, NoJob, TypeOK
<1>4. ASSUME NEW h \in Handlers, TakeAdvisoryLock(h) \/ LockRow(h) \/ CheckLeaves(h) \/ Fail(h)
      PROVE  job'[g] = job[g] \/ job'[g].op \notin {"create", "resubmit"}
  BY <1>3, <1>4 DEF TakeAdvisoryLock, LockRow, CheckLeaves, Fail, Goto
<1>5. ASSUME NEW h \in Handlers, LeaveStart(h), UNCHANGED leaves
      PROVE  job'[g] = job[g] \/ job'[g].op \notin {"create", "resubmit"} \/ JobFits(g)'
  <2>1. ASSUME NEW r \in Requesters, NEW c \in Payloads, StartRaise(h, r, c)
        PROVE  job'[g] = job[g] \/ JobFits(g)'
    <3>1. c.student = r
      BY <2>1, LeaveTypes DEF StartRaise, StartCreate
    <3> QED BY <1>0, <2>1, <3>1 DEF StartRaise, StartCreate, Begin, JobFits, TypeOK
  <2>2. ASSUME NEW r \in Requesters, NEW i \in Ids, NEW c \in Payloads, StartRevise(h, r, i, c)
        PROVE  job'[g] = job[g] \/ JobFits(g)'
    <3>1. /\ c.student = r
          /\ \/ c.type = "profile_update"
             \/ c.type = "leave_apply" /\ leaves[i] # Absent /\ leaves[i].student = r
      BY <2>2, LeaveTypes DEF StartRevise, StartResubmit, HasStatus
    <3> QED BY <1>0, <1>5, <2>2, <3>1 DEF StartRevise, StartResubmit, Begin, JobFits, TypeOK
  <2>3. ASSUME NEW r \in Requesters, NEW i \in Ids, StartCancel(h, r, i)
        PROVE  job'[g] = job[g] \/ job'[g].op \notin {"create", "resubmit"}
    BY <1>0, <2>3 DEF StartCancel, Begin, TypeOK
  <2>4. ASSUME NEW e \in Employees, NEW i \in Ids, StartDecide(h, e, i) \/ StartSendBack(h, e, i)
        PROVE  job'[g] = job[g] \/ job'[g].op \notin {"create", "resubmit"}
    BY <1>0, <2>4 DEF StartDecide, StartSendBack, Begin, TypeOK
  <2> QED BY <1>5, <2>1, <2>2, <2>3, <2>4 DEF LeaveStart
<1>6. CASE \E h \in Handlers : LeaveCommit(h)
  BY <1>1, <1>6
<1>7. CASE LeaveUntouched /\ UNCHANGED leaves
  BY <1>2, <1>3, <1>4, <1>5, <1>7 DEF LeaveUntouched, SetApprovers, Restart, NoJob
<1>8. CASE UNCHANGED leaveVars
  BY <1>8 DEF leaveVars, vars
<1> QED BY <1>6, <1>7, <1>8 DEF LeaveNext

\* A submitter about to write was about to write already, or has just checked.
LEMMA WriterSteps ==
  ASSUME LInv, [LeaveNext]_leaveVars, NEW g \in Handlers,
         pc'[g] = "write", job'[g].op \in {"create", "resubmit"}
  PROVE  /\ job'[g] = job[g]
         /\ pc[g] = "write" \/ (pc[g] = "check" /\ ~Refuses(g) /\ UNCHANGED leaves)
<1> DEFINE Goal == /\ job'[g] = job[g]
                   /\ pc[g] = "write" \/ (pc[g] = "check" /\ ~Refuses(g) /\ UNCHANGED leaves)
<1>0. TypeOK /\ OpMatchesPc
  BY DEF LInv, LeaveTypeOK, IInv
<1>1. ASSUME NEW h \in Handlers, CommitSome(h) PROVE Goal
  BY <1>0, <1>1, CommitEffect
<1>2. ASSUME NEW h \in Handlers, LeaveCommit(h) PROVE Goal
  <2>1. CommitSome(h)
    BY <1>2, LeaveCommitIsCommit
  <2> QED BY <1>1, <2>1
<1>3. ASSUME NEW h \in Handlers, Start(h) PROVE Goal
  BY <1>0, <1>3, StartEffect
<1>4. ASSUME NEW h \in Handlers, LeaveStart(h) PROVE Goal
  <2>1. Start(h)
    BY <1>4 DEF LeaveStart, Start, StartRaise, StartRevise
  <2> QED BY <1>3, <2>1
<1>5. ASSUME NEW h \in Handlers, Rollback(h) PROVE Goal
  BY <1>0, <1>5, RollbackEffect
<1>6. ASSUME NEW h \in Handlers, TakeAdvisoryLock(h) PROVE Goal
  BY <1>0, <1>6 DEF TakeAdvisoryLock, Goto, TypeOK
<1>7. ASSUME NEW h \in Handlers, LockRow(h) PROVE Goal
  BY <1>0, <1>5, <1>7 DEF LockRow, Goto, TypeOK, OpMatchesPc
<1>8. ASSUME NEW h \in Handlers, CheckLeaves(h), UNCHANGED leaves PROVE Goal
  BY <1>0, <1>5, <1>8 DEF CheckLeaves, Goto, TypeOK
<1>9. ASSUME NEW h \in Handlers, Notify(h) \/ Fail(h) PROVE Goal
  BY <1>0, <1>5, <1>9 DEF Notify, Fail, Finish, TypeOK
<1>10. CASE LeaveUntouched /\ UNCHANGED leaves
  <2>1. ASSUME NEW h \in Handlers, NEW i \in Ids, CommitSendBack(h, i) PROVE Goal
    BY <1>1, <2>1 DEF CommitSome
  <2> QED BY <1>4, <1>6, <1>7, <1>8, <1>9, <1>10, <2>1
          DEF LeaveUntouched, SetApprovers, Restart
<1>11. CASE UNCHANGED leaveVars
  BY <1>11 DEF leaveVars, vars
<1> QED BY <1>2, <1>10, <1>11 DEF LeaveNext

\* A leave stays and stays its student's, and what it newly covers is what the
\* handler that moves it asked for.
LEMMA MovesCover ==
  ASSUME LInv, NEW h \in Handlers, NEW i \in Ids, NEW l \in Ids,
         Moves(h, i, l), OnlyTheseMove(i, l), NEW m \in Ids
  PROVE  /\ leaves[m] # Absent => leaves'[m] # Absent /\ leaves'[m].student = leaves[m].student
         /\ leaves'[m] # Absent /\ leaves'[m].status \in Blocking =>
              \/ /\ leaves[m] # Absent /\ leaves[m].status \in Blocking
                 /\ leaves'[m].student = leaves[m].student /\ leaves'[m].range = leaves[m].range
              \/ /\ m = i /\ job[h].op \in {"create", "resubmit"}
                 /\ job[h].payload.type = "leave_apply"
                 /\ job[h].op = "resubmit" => i = job[h].id
                 /\ leaves'[m].range = job[h].payload.range
                 /\ leaves'[m].student = job[h].payload.student
<1> USE DEF Blocking, LeaveTo
<1>1. CASE m # l
  BY <1>1 DEF OnlyTheseMove
<1>2. CASE m = l /\ l = i /\ Applied(h, i)
  <2>1. leaves[i] = Absent
    BY <1>2 DEF Applied, NewRow, LInv, LeavesInLockStep, ApplicationInStep, Exists
  <2> QED BY <1>2, <2>1 DEF Applied, NewRow, LInv, JobsFit, JobFits
<1>3. CASE m = l /\ CancelAsked(h, i, l)
  BY <1>3 DEF CancelAsked
<1>4. CASE m = l /\ l = i /\ (Revised(h, i) \/ Crossed(h, i))
  BY <1>4 DEF Revised, Crossed, CameBack, LInv, JobsFit, JobFits
<1>5. CASE m = l /\ l = i /\ ApplicationTo(i, "cancelled", "withdrawn")
  BY <1>5 DEF ApplicationTo
<1>6. CASE m = l /\ l = i /\ \E verdict \in Decided : ApplicationTo(i, verdict, verdict)
  BY <1>6 DEF ApplicationTo, Decided
<1>7. CASE m = l /\ \E status, leaveStatus : CancellationTo(i, l, status, leaveStatus)
  BY <1>7 DEF CancellationTo
<1> QED BY <1>1, <1>2, <1>3, <1>4, <1>5, <1>6, <1>7 DEF Moves

\* Submitters go on acting for the leave's own student.
LEMMA StepJobs == LInv /\ [LeaveNext]_leaveVars => JobsFit'
<1> SUFFICES ASSUME LInv, [LeaveNext]_leaveVars, NEW g \in Handlers PROVE JobFits(g)'
  BY DEF JobsFit
<1>1. \A m \in Ids : leaves[m] # Absent =>
         leaves'[m] # Absent /\ leaves'[m].student = leaves[m].student
  <2>1. CASE UNCHANGED leaves
    BY <2>1
  <2>2. ASSUME NEW h \in Handlers, LeaveCommit(h)
        PROVE  \A m \in Ids : leaves[m] # Absent =>
                  leaves'[m] # Absent /\ leaves'[m].student = leaves[m].student
    <3>1. PICK i \in Ids, l \in Ids : Moves(h, i, l) /\ OnlyTheseMove(i, l)
      BY <2>2, CommitMoves
    <3> QED BY <3>1, MovesCover
  <2> QED BY <2>1, <2>2 DEF LeaveNext, leaveVars
<1>2. CASE job'[g] = job[g]
  <2>1. job[g].op = "resubmit" => job[g].id \in Ids
    BY JobFields DEF LInv, IInv, TypeOK
  <2> QED BY <1>1, <1>2, <2>1 DEF LInv, JobsFit, JobFits
<1>3. CASE job'[g].op \notin {"create", "resubmit"}
  BY <1>3 DEF JobFits
<1> QED BY <1>2, <1>3, JobSteps

\* A joint move covers no slot that another standing leave covers.
LEMMA MovesKeepApart ==
  ASSUME LInv, NEW h \in Handlers, NEW i \in Ids, NEW l \in Ids,
         pc[h] = "write", Moves(h, i, l), OnlyTheseMove(i, l)
  PROVE  NoOverlappingLeaves'
<1> SUFFICES ASSUME NEW m \in Ids, NEW n \in Ids, m # n,
                    leaves'[m] # Absent, leaves'[m].status \in Blocking,
                    leaves'[n] # Absent, leaves'[n].status \in Blocking,
                    leaves'[m].student = leaves'[n].student
             PROVE  leaves'[m].range \cap leaves'[n].range = {}
  BY DEF NoOverlappingLeaves
<1> DEFINE Old(k) == /\ leaves[k] # Absent /\ leaves[k].status \in Blocking
                     /\ leaves'[k].student = leaves[k].student /\ leaves'[k].range = leaves[k].range
           New(k) == /\ k = i /\ job[h].op \in {"create", "resubmit"}
                     /\ job[h].payload.type = "leave_apply"
                     /\ job[h].op = "resubmit" => i = job[h].id
                     /\ leaves'[k].range = job[h].payload.range
                     /\ leaves'[k].student = job[h].payload.student
<1>1. (Old(m) \/ New(m)) /\ (Old(n) \/ New(n))
  BY MovesCover
<1>2. CASE Old(m) /\ Old(n)
  BY <1>2 DEF LInv, NoOverlappingLeaves
<1>3. ASSUME NEW k \in Ids, NEW other \in Ids, k # other, New(k), Old(other),
             leaves'[k].student = leaves'[other].student
      PROVE  leaves'[k].range \cap leaves'[other].range = {}
  <2>1. ~Overlaps(job[h].payload, other)
    BY <1>3 DEF LInv, LeavesAreFree, SlotsAreFree
  <2> QED BY <1>3, <2>1 DEF Overlaps
<1> QED BY <1>1, <1>2, <1>3

\* Slots found free stay free until they are taken.
LEMMA StepFree == LInv /\ [LeaveNext]_leaveVars => LeavesAreFree'
<1> SUFFICES ASSUME LInv, [LeaveNext]_leaveVars, NEW g \in Handlers,
                    pc'[g] = "write", job'[g].op \in {"create", "resubmit"},
                    job'[g].payload.type = "leave_apply",
                    NEW m \in Ids,
                    leaves'[m] # Absent, leaves'[m].status \in Blocking,
                    leaves'[m].student = job'[g].payload.student,
                    leaves'[m].range \cap job'[g].payload.range # {}
             PROVE  job'[g].op = "resubmit" /\ m = job'[g].id
  BY DEF LeavesAreFree, SlotsAreFree, Overlaps
<1>1. job'[g] = job[g]
  BY WriterSteps
<1>2. CASE UNCHANGED leaves
  <2>1. Overlaps(job[g].payload, m)
    BY <1>1, <1>2 DEF Overlaps
  <2>2. pc[g] = "write" \/ (pc[g] = "check" /\ ~Refuses(g))
    BY WriterSteps
  <2>3. CASE pc[g] = "write"
    BY <1>1, <2>1, <2>3 DEF LInv, LeavesAreFree, SlotsAreFree
  <2>4. CASE ~Refuses(g)
    BY <1>1, <2>1, <2>4 DEF Refuses
  <2> QED BY <2>2, <2>3, <2>4
<1>3. ASSUME NEW h \in Handlers, LeaveCommit(h), ~UNCHANGED leaves
      PROVE  job'[g].op = "resubmit" /\ m = job'[g].id
  <2>1. PICK i \in Ids, l \in Ids : pc[h] = "write" /\ Moves(h, i, l) /\ OnlyTheseMove(i, l)
    BY <1>3, CommitMoves
  <2>2. pc[g] = "write"
    BY <1>3, WriterSteps
  <2>3. CASE /\ leaves[m] # Absent /\ leaves[m].status \in Blocking
             /\ leaves'[m].student = leaves[m].student /\ leaves'[m].range = leaves[m].range
    <3>1. Overlaps(job[g].payload, m)
      BY <1>1, <2>3 DEF Overlaps
    <3> QED BY <1>1, <2>2, <3>1 DEF LInv, LeavesAreFree, SlotsAreFree
  <2>4. CASE /\ job[h].op \in {"create", "resubmit"}
             /\ job[h].payload.type = "leave_apply"
             /\ leaves'[m].student = job[h].payload.student
    <3>1. job[g].payload \in Payloads /\ job[h].payload \in Payloads
      BY <1>1, <2>4, JobFields DEF LInv, IInv, TypeOK
    <3>2. LockKey[job[g].payload] = LockKey[job[h].payload]
      BY <1>1, <2>4, <3>1, LeaveTypes DEF LeaveLockKey
    <3>3. advisory[LockKey[job[g].payload]] = g /\ advisory[LockKey[job[h].payload]] = h
      BY <1>1, <2>1, <2>2, <2>4 DEF LInv, IInv, LockDiscipline, HoldsKey
    <3>4. CommitSome(h)
      BY <1>3, LeaveCommitIsCommit
    <3>5. pc'[h] # "write"
      BY <3>4, CommitEffect DEF LInv, IInv
    <3> QED BY <3>2, <3>3, <3>5
  <2> QED BY <2>1, <2>3, <2>4, MovesCover
<1> QED BY <1>2, <1>3 DEF LeaveNext, leaveVars

-----------------------------------------------------------------------------
(* The invariant *)

\* With no requests and no leaves everything holds.
LEMMA LeaveInitLInv == LeaveInit => LInv
<1> SUFFICES ASSUME LeaveInit PROVE LInv
  OBVIOUS
<1>1. IInv
  BY InitIInv DEF LeaveInit
<1>2. LeaveTypeOK
  BY <1>1 DEF IInv, LeaveTypeOK, LeaveInit
<1>3. RowsFit /\ JobsFit /\ LeavesInLockStep
  BY DEF LeaveInit, Init, NoJob, RowsFit, RowFits, JobsFit, JobFits, LeavesInLockStep,
         ApplicationInStep, CancellationInStep, NamesItsCancellation, Exists
<1>4. LeavesAreFree /\ NoOverlappingLeaves
  BY DEF LeaveInit, Init, LeavesAreFree, SlotsAreFree, NoOverlappingLeaves
<1> QED BY <1>1, <1>2, <1>3, <1>4 DEF LInv

\* Every step keeps the invariant.
LEMMA StepLInv == LInv /\ [LeaveNext]_leaveVars => LInv'
<1> SUFFICES ASSUME LInv, [LeaveNext]_leaveVars PROVE LInv'
  OBVIOUS
<1>1. IInv'
  BY LeaveStepIsFrameworkStep, StepIInv DEF LInv
<1>2. JobsFit' /\ LeavesAreFree'
  BY StepJobs, StepFree
<1>3. CASE (LeaveUntouched /\ UNCHANGED leaves) \/ UNCHANGED leaveVars
  <2>1. UNCHANGED leaves
    BY <1>3 DEF leaveVars
  <2>2. LeaveTypeOK'
    BY <1>1, <2>1 DEF IInv, LInv, LeaveTypeOK
  <2> QED BY <1>1, <1>2, <1>3, <2>1, <2>2, UntouchedKeepsStep DEF LInv
<1>4. ASSUME NEW h \in Handlers, LeaveCommit(h) PROVE LInv'
  <2>1. PICK i \in Ids, l \in Ids : pc[h] = "write" /\ Moves(h, i, l) /\ OnlyTheseMove(i, l)
    BY <1>4, CommitMoves
  <2>2. LeaveTypeOK'
    BY <1>1, <2>1 DEF IInv, LeaveTypeOK, OnlyTheseMove
  <2>3. RowsFit' /\ LeavesInLockStep' /\ NoOverlappingLeaves'
    BY <2>1, MovesKeepRows, MovesKeepStep, MovesKeepApart
  <2> QED BY <1>1, <1>2, <2>2, <2>3 DEF LInv
<1> QED BY <1>3, <1>4 DEF LeaveNext

\* The invariant of leaves and requests together holds in every reachable state.
THEOREM LeaveInductive == LeaveSpec => []LInv
  BY LeaveInitLInv, StepLInv, PTL DEF LeaveSpec

\* A student's standing leaves never cover one class twice: assertNoOverlap, made
\* under the requester's advisory lock, is still true when the row is written.
THEOREM LeavesNeverOverlap == LeaveSpec => []NoOverlappingLeaves
<1>1. LInv => NoOverlappingLeaves
  BY DEF LInv
<1> QED BY <1>1, LeaveInductive, PTL

\* The leave row and the two kinds of request about it are never out of step.
THEOREM LeavesKeepStep == LeaveSpec => []LeavesInLockStep
<1>1. LInv => LeavesInLockStep
  BY DEF LInv
<1> QED BY <1>1, LeaveInductive, PTL

\* The leave handlers, which check leave rows and not open requests, are an
\* instance of the framework: all it promises holds of leave requests too.
THEOREM LeavesImplementFramework == LeaveSpec => ImplementsFramework
<1>1. LeaveInit => Init
  BY DEF LeaveInit
<1>2. LInv /\ [LeaveNext]_leaveVars => [Next]_vars
  BY LeaveStepIsFrameworkStep
<1> QED BY <1>1, <1>2, LeaveInductive, PTL DEF LeaveSpec, Spec, ImplementsFramework

\* No two open leave requests claim one period or one cancellation of a leave.
THEOREM LeaveClaimsAreExclusive == LeaveSpec => []ClaimsExclusive
<1>1. LInv => ClaimsExclusive
  BY DEF LInv, IInv
<1> QED BY <1>1, LeaveInductive, PTL

-----------------------------------------------------------------------------
\* A joint move takes a leave along its diagram.
LEMMA MovesFollow ==
  ASSUME LInv, NEW h \in Handlers, NEW i \in Ids, NEW l \in Ids,
         Moves(h, i, l), OnlyTheseMove(i, l), NEW m \in Ids
  PROVE  FollowsDiagram(m)
<1> USE DEF FollowsDiagram, Diagram, LeaveTo
<1>1. CASE m # l
  BY <1>1 DEF OnlyTheseMove
<1>2. CASE m = l /\ l = i /\ Applied(h, i)
  BY <1>2 DEF Applied, NewRow, LInv, LeavesInLockStep, ApplicationInStep, Exists
<1>3. CASE m = l /\ CancelAsked(h, i, l)
  BY <1>3 DEF CancelAsked
<1>4. CASE m = l /\ l = i /\ (Revised(h, i) \/ Crossed(h, i))
  BY <1>4 DEF Revised, Crossed
<1>5. CASE m = l /\ l = i /\ ApplicationTo(i, "cancelled", "withdrawn")
  BY <1>5 DEF ApplicationTo
<1>6. CASE m = l /\ l = i /\ \E verdict \in Decided : ApplicationTo(i, verdict, verdict)
  BY <1>6 DEF ApplicationTo, Decided
<1>7. CASE m = l /\ \/ CancellationTo(i, l, "cancelled", "approved")
                    \/ CancellationTo(i, l, "approved", "cancelled")
                    \/ CancellationTo(i, l, "rejected", "approved")
  BY <1>7 DEF CancellationTo
<1> QED BY <1>1, <1>2, <1>3, <1>4, <1>5, <1>6, <1>7 DEF Moves

\* Every leave walks the diagram of its entity, and one in effect keeps its student
\* and its dates.
THEOREM LeavesWalkTheDiagram == LeaveSpec => LeavesFollowDiagram
<1>1. LInv /\ [LeaveNext]_leaveVars => [AllFollowDiagram]_leaves
  <2> SUFFICES ASSUME LInv, [LeaveNext]_leaveVars, ~UNCHANGED leaves, NEW m \in Ids
               PROVE  FollowsDiagram(m)
    BY DEF AllFollowDiagram
  <2>1. PICK h \in Handlers : LeaveCommit(h)
    BY DEF LeaveNext, leaveVars
  <2>2. PICK i \in Ids, l \in Ids : Moves(h, i, l) /\ OnlyTheseMove(i, l)
    BY <2>1, CommitMoves
  <2> QED BY <2>2, MovesFollow
<1> QED BY <1>1, LeaveInductive, PTL DEF LeaveSpec, LeavesFollowDiagram
=============================================================================
