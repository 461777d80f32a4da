--------------------------- MODULE StudentLeaves ---------------------------
(***************************************************************************)
(* Student leaves on top of the approval framework: the leave_apply and    *)
(* leave_cancel request types (student/leaves/leave-apply.handler.ts,      *)
(* leave-cancel.handler.ts, student-leaves.service.ts) and the row each    *)
(* application keeps in student_leaves, which is what attendance reads.    *)
(*                                                                         *)
(* The framework's duplicate check is replaced by the handlers' own, which *)
(* look at leave rows and not at open requests, and its commits carry the  *)
(* handlers' hooks.  A leave's dates and clock window are abstracted to the*)
(* set of slots (class periods of a day) it covers: two leaves overlap when*)
(* they share a slot.  A leave is named by the id of the application that  *)
(* created it: onRaised inserts exactly one row for each.                  *)
(*                                                                         *)
(* A sent-back leave request can also come back through the profile-update *)
(* route, which takes any request id of the student: with a profile's      *)
(* payload, under the profile's lock and without a hook of the leave.  Such*)
(* a request is still decided and cancelled by the leave's handler, which  *)
(* finds the leave by the request's id.  The student's profile updates     *)
(* themselves are the framework's business and are not raised here.        *)
(***************************************************************************)
EXTENDS ApprovalRequests

CONSTANTS Slots,   \* class periods
          Ranges   \* sets of slots a student can ask leave for

VARIABLE leaves    \* the student_leaves table

leaveVars == <<vars, leaves>>

Applications == [type : {"leave_apply"}, student : Requesters, range : Ranges]
Cancellations == [type : {"leave_cancel"}, student : Requesters, leave : Ids]
ProfileUpdates == [type : {"profile_update"}, student : Requesters]

\* The fields of a profile update clash with no leave.
LeaveClaims(c) == CASE c.type = "leave_apply" -> [student : {c.student}, slot : c.range]
                    [] c.type = "leave_cancel" -> [leave : {c.leave}]
                    [] c.type = "profile_update" -> {}

\* A cancellation serialises on the leave: two cancellations of one leave must not
\* race.  Everything else serialises on its requester (the framework's default key).
LeaveLockKey(c) == IF c.type = "leave_cancel"
                     THEN [type |-> c.type, leave |-> c.leave]
                     ELSE [type |-> c.type, student |-> c.student]

Blocking == {"pending", "approved", "cancel_requested"}
LeaveStatuses == Blocking \cup {"rejected", "withdrawn", "cancelled"}

Leave == [student : Requesters, range : Ranges, status : LeaveStatuses,
          cancelRequest : Ids \cup {Absent}]

\* The framework's parameters for these types.
ASSUME LeaveTypes ==
  /\ Ranges \subseteq (SUBSET Slots) \ {{}}
  /\ Types = {"leave_apply", "leave_cancel", "profile_update"}
  /\ OpenRoutes = {"profile_update"}
  /\ Payloads = Applications \cup Cancellations \cup ProfileUpdates
  /\ TypeOf = [c \in Payloads |-> c.type]
  /\ ClaimsOf = [c \in Payloads |-> LeaveClaims(c)]
  /\ LockKey = [c \in Payloads |-> LeaveLockKey(c)]
  /\ MaySubmit = [r \in Requesters |-> {c \in Payloads : c.student = r}]
  /\ Absent \notin Leave \cup Ids

LeaveTypeOK == TypeOK /\ leaves \in [Ids -> Leave \cup {Absent}]

LeaveInit == Init /\ leaves = [l \in Ids |-> Absent]

HasStatus(l, status) == leaves[l] # Absent /\ leaves[l].status = status

-----------------------------------------------------------------------------
(* Before the transaction: what StudentLeavesService reads of the leave *)

\* apply asks nothing of earlier leaves; requestCancel wants an approved leave.
StartRaise(h, r, c) ==
  /\ c.type # "profile_update"
  /\ c.type = "leave_cancel" => HasStatus(c.leave, "approved") /\ leaves[c.leave].student = r
  /\ StartCreate(h, r, c)

\* The leaves' route revises applications only, by the leave; the profile's route
\* takes the id of the request and looks at nothing.
StartRevise(h, r, i, c) ==
  /\ \/ c.type = "leave_apply" /\ HasStatus(i, "pending") /\ leaves[i].student = r
     \/ c.type = "profile_update"
  /\ StartResubmit(h, r, i, c)

-----------------------------------------------------------------------------
(* assertCreatable and assertResubmittable *)

\* assertNoOverlap: leave l blocks a slot that application c asks for.
Overlaps(c, l) == /\ leaves[l] # Absent
                  /\ leaves[l].status \in Blocking
                  /\ leaves[l].student = c.student
                  /\ leaves[l].range \cap c.range # {}

\* Mutant: a revision is not checked against the student's other leaves.
RefusesNewOnly(h) ==
  LET c == job[h].payload IN
  \/ c.type = "leave_apply" /\ job[h].op = "create" /\ \E l \in Ids : Overlaps(c, l)
  \/ c.type = "leave_cancel" /\ ~HasStatus(c.leave, "approved")

Refuses(h) ==
  LET c == job[h].payload IN
  \/ /\ c.type = "leave_apply"
     /\ \E l \in Ids : Overlaps(c, l) /\ (job[h].op = "resubmit" => l # job[h].id)
  \/ c.type = "leave_cancel" /\ ~HasStatus(c.leave, "approved")

CheckLeaves(h) ==
  /\ pc[h] = "check"
  /\ IF Refuses(h) THEN Rollback(h)
                   ELSE Goto(h, "write") /\ UNCHANGED <<db, locks, approvers>>

-----------------------------------------------------------------------------
(* The hooks, in the transaction of the framework's write.  A guard that a  *)
(* hook finds false is an exception, so a Fail of the framework.            *)

\* The handler that decides and cancels is the one of the request's own type.
IsOf(i, type) == requests[i].type = type

RaiseApplication(h, i) ==
  /\ CommitCreate(h, i)
  /\ job[h].payload.type = "leave_apply"
  /\ leaves' = [leaves EXCEPT ![i] = [student |-> job[h].who, range |-> job[h].payload.range,
                                      status |-> "pending", cancelRequest |-> Absent]]

\* UPDATE ... WHERE status = 'approved'; no row affected is a 409.
RaiseCancellation(h, i) ==
  LET l == job[h].payload.leave IN
  /\ CommitCreate(h, i)
  /\ job[h].payload.type = "leave_cancel" /\ HasStatus(l, "approved")
  /\ leaves' = [leaves EXCEPT ![l] = [@ EXCEPT !.status = "cancel_requested",
                                               !.cancelRequest = i]]

\* Only the leave's own resubmit has a hook.
Revise(h, i) ==
  /\ CommitResubmit(h, i)
  /\ leaves' = IF job[h].payload.type = "leave_apply" /\ HasStatus(i, "pending")
                 THEN [leaves EXCEPT ![i] = [@ EXCEPT !.range = job[h].payload.range]]
                 ELSE leaves

WithdrawApplication(h, i) ==
  /\ CommitCancel(h, i)
  /\ IsOf(i, "leave_apply")
  /\ leaves' = IF HasStatus(i, "pending")
                 THEN [leaves EXCEPT ![i] = [@ EXCEPT !.status = "withdrawn"]]
                 ELSE leaves

AskedToCancel(l, i) == HasStatus(l, "cancel_requested") /\ leaves[l].cancelRequest = i

WithdrawCancellation(h, i) ==
  /\ CommitCancel(h, i)
  /\ IsOf(i, "leave_cancel")
  /\ leaves' = [l \in Ids |-> IF AskedToCancel(l, i)
                                THEN [leaves[l] EXCEPT !.status = "approved",
                                                       !.cancelRequest = Absent]
                                ELSE leaves[l]]

DecideApplication(h, i, verdict) ==
  /\ CommitDecide(h, i, verdict)
  /\ IsOf(i, "leave_apply") /\ HasStatus(i, "pending")
  /\ leaves' = [leaves EXCEPT ![i] = [@ EXCEPT !.status = verdict]]

\* Mutant: a refused cancellation leaves the leave waiting for one.
RefuseAndKeepWaiting(h, i, verdict) ==
  \E l \in Ids :
    /\ CommitDecide(h, i, verdict)
    /\ IsOf(i, "leave_cancel") /\ AskedToCancel(l, i)
    /\ leaves' = [leaves EXCEPT ![l] =
         [@ EXCEPT !.status = IF verdict = "approved" THEN "cancelled" ELSE @]]

\* Mutant: the leave row is given the verdict, as by the application's handler.
CancelWithVerdict(h, i, verdict) ==
  \E l \in Ids :
    /\ CommitDecide(h, i, verdict)
    /\ IsOf(i, "leave_cancel") /\ AskedToCancel(l, i)
    /\ leaves' = [leaves EXCEPT ![l] = [@ EXCEPT !.status = verdict]]

\* A refused cancellation lets the leave stand and keeps cancel_request_id.
DecideCancellation(h, i, verdict) ==
  \E l \in Ids :
    /\ CommitDecide(h, i, verdict)
    /\ IsOf(i, "leave_cancel") /\ AskedToCancel(l, i)
    /\ leaves' = [leaves EXCEPT ![l] =
         [@ EXCEPT !.status = IF verdict = "approved" THEN "cancelled" ELSE "approved"]]

-----------------------------------------------------------------------------
LeaveStart(h) ==
  /\ pc[h] = "idle"
  /\ \/ \E r \in Requesters, c \in Payloads : StartRaise(h, r, c)
     \/ \E r \in Requesters, i \in Ids :
           (\E c \in Payloads : StartRevise(h, r, i, c)) \/ StartCancel(h, r, i)
     \/ \E e \in Employees, i \in Ids : StartDecide(h, e, i) \/ StartSendBack(h, e, i)

LeaveCommit(h) ==
  \E i \in Ids :
    \/ RaiseApplication(h, i)
    \/ RaiseCancellation(h, i)
    \/ Revise(h, i)
    \/ WithdrawApplication(h, i)
    \/ WithdrawCancellation(h, i)
    \/ \E verdict \in Decided : DecideApplication(h, i, verdict)
                                  \/ DecideCancellation(h, i, verdict)

\* What the framework does without touching a leave.
LeaveUntouched ==
  \/ \E h \in Handlers :
        \/ LeaveStart(h)
        \/ TakeAdvisoryLock(h) \/ LockRow(h) \/ CheckLeaves(h)
        \/ \E i \in Ids : CommitSendBack(h, i)
        \/ Notify(h) \/ Fail(h)
  \/ \E s \in Scopes, E \in SUBSET Employees : SetApprovers(s, E)
  \/ Restart

LeaveNext == \/ \E h \in Handlers : LeaveCommit(h)
             \/ LeaveUntouched /\ UNCHANGED leaves

LeaveSpec == LeaveInit /\ [][LeaveNext]_leaveVars

-----------------------------------------------------------------------------
(* Properties *)

\* One leave per slot: a student's pending, approved and cancellation-pending
\* leaves never cover the same class, though the check and the insert are apart
\* and revisions move a leave's dates (assertNoOverlap).
NoOverlappingLeaves ==
  \A l, m \in Ids :
    /\ l # m
    /\ leaves[l] # Absent /\ leaves[l].status \in Blocking
    /\ leaves[m] # Absent /\ leaves[m].status \in Blocking
    /\ leaves[l].student = leaves[m].student
    => leaves[l].range \cap leaves[m].range = {}

ApplicationInStep(i) ==
  IF Exists(i) /\ IsOf(i, "leave_apply")
    THEN /\ leaves[i] # Absent
         /\ leaves[i].student = requests[i].requester
         /\ requests[i].payload.type = "leave_apply" => leaves[i].range = requests[i].payload.range
         /\ IsOpen(i) <=> leaves[i].status = "pending"
         /\ requests[i].status = "rejected" <=> leaves[i].status = "rejected"
         /\ requests[i].status = "cancelled" <=> leaves[i].status = "withdrawn"
    ELSE leaves[i] = Absent

CancelledBy(l, i) == HasStatus(l, "cancelled") /\ leaves[l].cancelRequest = i

CancellationInStep(i) ==
  Exists(i) /\ IsOf(i, "leave_cancel") =>
    /\ IsOpen(i) <=> \E l \in Ids : AskedToCancel(l, i)
    /\ requests[i].status = "approved" <=> \E l \in Ids : CancelledBy(l, i)

\* The cancellation a leave names is one, is of this leave and of no other, unless
\* its payload was replaced through the profile's route.
NamesItsCancellation(l) ==
  LET i == leaves[l].cancelRequest IN
  leaves[l] # Absent /\ i # Absent =>
    /\ Exists(i) /\ IsOf(i, "leave_cancel")
    /\ requests[i].payload.type = "leave_cancel" => requests[i].payload.leave = l
    /\ \A m \in Ids : leaves[m] # Absent /\ leaves[m].cancelRequest = i => m = l

\* The leave row and its requests are kept in lock-step, as the entity's comment
\* promises: a leave is pending exactly while its application is open, waits for
\* a cancellation exactly while that request is open, and is cancelled by the
\* approval of the cancellation it names.  Only the dates can part: a request that
\* came back through the profile's route no longer says what the leave's are.
LeavesInLockStep ==
  /\ \A i \in Ids : ApplicationInStep(i) /\ CancellationInStep(i) /\ NamesItsCancellation(i)
  /\ \A l \in Ids : leaves[l] # Absent /\ leaves[l].status \in {"cancel_requested", "cancelled"}
       => leaves[l].cancelRequest # Absent

Diagram == {<<"pending", "approved">>, <<"pending", "rejected">>, <<"pending", "withdrawn">>,
            <<"approved", "cancel_requested">>, <<"cancel_requested", "cancelled">>,
            <<"cancel_requested", "approved">>}

FollowsDiagram(l) ==
  leaves[l] # Absent =>
    /\ leaves'[l] # Absent
    /\ leaves'[l].status # leaves[l].status => <<leaves[l].status, leaves'[l].status>> \in Diagram
    /\ leaves[l].status # "pending" => leaves'[l].range = leaves[l].range
    /\ leaves'[l].student = leaves[l].student

AllFollowDiagram == \A l \in Ids : FollowsDiagram(l)

\* A leave's status moves only along the diagram above STUDENT_LEAVE_STATUSES,
\* and a leave in effect changes neither its student nor its dates.
LeavesFollowDiagram == [][AllFollowDiagram]_leaves

\* Checking leave rows instead of open requests is as good: the leave handlers
\* are an instance of the framework with its own duplicate check.
ImplementsFramework == Spec
=============================================================================
