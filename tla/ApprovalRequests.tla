-------------------------- MODULE ApprovalRequests --------------------------
(***************************************************************************)
(* The approval-request framework                                          *)
(* (src/src/requests/approval-requests.service.ts).  Every HTTP handler is *)
(* a process h; its database transaction is cut at the statements another  *)
(* transaction can slip between: taking the advisory lock, SELECT ... FOR  *)
(* UPDATE of the request row, the type's duplicate check, and the writes,  *)
(* which become visible together at commit.  The server runs at READ       *)
(* COMMITTED, so the duplicate check sees exactly what is committed when it*)
(* runs.                                                                   *)
(*                                                                         *)
(* A request type is abstracted to what the framework needs from it: the   *)
(* claims a payload reserves (ClaimsOf, what assertCreatable and           *)
(* assertResubmittable compare) and the advisory-lock key the type derives *)
(* from it (LockKey).  The domain writes of the types are the business of  *)
(* StudentLeaves and CompanyApprovals.                                     *)
(*                                                                         *)
(* A resubmit is the business of the type whose route was called, and      *)
(* nothing compares it with the type the request was raised with: a sent-  *)
(* back request of one type can go back to pending with a payload of       *)
(* another.  It is decided by its own type all the same, and the duplicate *)
(* checks, which look at the requests of one type, see no claim in such a  *)
(* payload (Held).                                                         *)
(***************************************************************************)
EXTENDS Naturals, Sequences, FiniteSets

CONSTANTS Ids,         \* request ids (the serial primary key)
          Requesters,  \* students and employees who raise requests
          Employees,   \* who may be made an approver
          Scopes,      \* routing keys: batches, attendance groups, action keys
          RouteOf,     \* RouteOf[r]: the scope a requester's requests go to
          Types,       \* request types
          OpenRoutes,  \* types whose resubmit route takes the id of any request
          Payloads,    \* request payloads
          TypeOf,      \* TypeOf[c]: the type that builds payload c
          ClaimsOf,    \* ClaimsOf[c]: the items payload c holds while its request is open
          LockKeys,    \* advisory lock keys
          LockKey,     \* LockKey[c]: the key a submit of c serialises on
          MaySubmit,   \* MaySubmit[r]: payloads the type's module lets r build
          Handlers,    \* concurrent HTTP handlers
          Nobody,      \* no lock holder, no deciding employee
          Absent,      \* the content of a row that is not there
          MaxEvents    \* bound: no send-back starts on a longer timeline

Open == {"pending", "sent_back"}
Decided == {"approved", "rejected"}
Statuses == Open \cup Decided \cup {"cancelled"}
Events == {"raised", "resubmitted", "sent_back", "cancelled"} \cup Decided

Row == [type : Types, status : Statuses, requester : Requesters, scope : Scopes,
        payload : Payloads, decidedBy : Employees \cup {Nobody}]

ASSUME RoutingData == /\ RouteOf \in [Requesters -> Scopes]
                      /\ MaySubmit \in [Requesters -> SUBSET Payloads]
                      /\ LockKey \in [Payloads -> LockKeys]
                      /\ TypeOf \in [Payloads -> Types]
                      /\ Payloads # {}
                      /\ Nobody \notin Handlers \cup Employees
                      /\ Absent \notin Row

\* The contract of lockKeyFor: payloads that could clash, which are of one type,
\* take the same lock.
ASSUME LockContract ==
  \A c, d \in Payloads : ClaimsOf[c] \cap ClaimsOf[d] # {} =>
     TypeOf[c] = TypeOf[d] /\ LockKey[c] = LockKey[d]

VARIABLES requests,   \* the approval_requests table
          timeline,   \* timeline[i]: the approval_request_events of request i
          approvers,  \* approvers[s]: the verifiers, in-charges or action approvers of s
          advisory,   \* advisory[k]: the transaction holding advisory lock k
          rowLock,    \* rowLock[i]: the transaction holding row i FOR UPDATE
          pc,         \* where each handler is
          job         \* what each handler was asked to do

db == <<requests, timeline>>
locks == <<advisory, rowLock>>
vars == <<requests, timeline, approvers, advisory, rowLock, pc, job>>

Jobs == [op : {"none"}]
          \cup [op : {"create"}, who : Requesters, payload : Payloads]
          \cup [op : {"resubmit"}, id : Ids, who : Requesters, payload : Payloads]
          \cup [op : {"cancel"}, id : Ids, who : Requesters]
          \cup [op : {"decide", "sendBack"}, id : Ids, who : Employees]
          \cup [op : {"notify"}, id : Ids, event : Events]

TypeOK == /\ requests \in [Ids -> Row \cup {Absent}]
          /\ timeline \in [Ids -> Seq(Events)]
          /\ approvers \in [Scopes -> SUBSET Employees]
          /\ advisory \in [LockKeys -> Handlers \cup {Nobody}]
          /\ rowLock \in [Ids -> Handlers \cup {Nobody}]
          /\ pc \in [Handlers -> {"idle", "lock", "row", "check", "write", "notify"}]
          /\ job \in [Handlers -> Jobs]

-----------------------------------------------------------------------------
NoJob == [op |-> "none"]

Init == /\ requests = [i \in Ids |-> Absent]
        /\ timeline = [i \in Ids |-> <<>>]
        /\ approvers \in [Scopes -> SUBSET Employees]
        /\ advisory = [k \in LockKeys |-> Nobody]
        /\ rowLock = [i \in Ids |-> Nobody]
        /\ pc = [h \in Handlers |-> "idle"]
        /\ job = [h \in Handlers |-> NoJob]

Exists(i) == requests[i] # Absent
IsOpen(i) == Exists(i) /\ requests[i].status \in Open

\* Mutant: a session-level advisory lock, which commit does not give back.
ReleaseRowOnly(h) ==
  /\ advisory' = advisory
  /\ rowLock' = [i \in Ids |-> IF rowLock[i] = h THEN Nobody ELSE rowLock[i]]

\* Commit and rollback both give back every lock of the transaction.
ReleaseLocks(h) ==
  /\ advisory' = [k \in LockKeys |-> IF advisory[k] = h THEN Nobody ELSE advisory[k]]
  /\ rowLock' = [i \in Ids |-> IF rowLock[i] = h THEN Nobody ELSE rowLock[i]]

Finish(h) == /\ pc' = [pc EXCEPT ![h] = "idle"]
             /\ job' = [job EXCEPT ![h] = NoJob]

Rollback(h) == Finish(h) /\ ReleaseLocks(h) /\ UNCHANGED <<db, approvers>>

Goto(h, label) == pc' = [pc EXCEPT ![h] = label] /\ UNCHANGED job

-----------------------------------------------------------------------------
(* A handler starts: what it does before its transaction *)

Begin(h, j, label) == /\ pc[h] = "idle"
                      /\ pc' = [pc EXCEPT ![h] = label]
                      /\ job' = [job EXCEPT ![h] = j]
                      /\ UNCHANGED <<db, locks, approvers>>

\* Bound: a submit starts only while the model has a row left for it.
RoomToCreate == Cardinality({g \in Handlers : job[g].op = "create"})
                  < Cardinality({i \in Ids : ~Exists(i)})

\* Somebody must be able to act on the request, or it is refused with a 422.
StartCreate(h, r, c) ==
  /\ RoomToCreate
  /\ c \in MaySubmit[r]
  /\ approvers[RouteOf[r]] # {}
  /\ Begin(h, [op |-> "create", who |-> r, payload |-> c], "lock")

\* The framework does not compare the two types; a route that looks the request
\* up in its own domain, as the leaves' and the companies' do, only finds its own.
StartResubmit(h, r, i, c) ==
  /\ c \in MaySubmit[r]
  /\ Exists(i)
  /\ TypeOf[c] = requests[i].type \/ TypeOf[c] \in OpenRoutes
  /\ Begin(h, [op |-> "resubmit", id |-> i, who |-> r, payload |-> c], "lock")

StartCancel(h, r, i) ==
  Exists(i) /\ Begin(h, [op |-> "cancel", id |-> i, who |-> r], "row")

StartDecide(h, e, i) ==
  Exists(i) /\ Begin(h, [op |-> "decide", id |-> i, who |-> e], "row")

StartSendBack(h, e, i) ==
  /\ Exists(i) /\ Len(timeline[i]) < MaxEvents
  /\ Begin(h, [op |-> "sendBack", id |-> i, who |-> e], "row")

-----------------------------------------------------------------------------
(* Inside the transaction *)

\* Mutant: the advisory lock is not waited for.
SkipAdvisoryLock(h) ==
  /\ pc[h] = "lock"
  /\ Goto(h, IF job[h].op = "create" THEN "check" ELSE "row")
  /\ UNCHANGED <<db, approvers, locks>>

\* SELECT pg_advisory_xact_lock(hashtext(lockKey)): waits for the holder.
TakeAdvisoryLock(h) ==
  /\ pc[h] = "lock"
  /\ advisory[LockKey[job[h].payload]] = Nobody
  /\ advisory' = [advisory EXCEPT ![LockKey[job[h].payload]] = h]
  /\ Goto(h, IF job[h].op = "create" THEN "check" ELSE "row")
  /\ UNCHANGED <<db, approvers, rowLock>>

MayAct(e, i) == e \in approvers[requests[i].scope]

\* Mutant: a decision does not look at the status again under the lock.
AdmitsDecided(h, i) ==
  \/ /\ job[h].op \in {"resubmit", "cancel"}
     /\ requests[i].requester = job[h].who
     /\ requests[i].status \in IF job[h].op = "cancel" THEN Open ELSE {"sent_back"}
  \/ job[h].op \in {"decide", "sendBack"} /\ MayAct(job[h].who, i)

\* What each operation demands of the row it has just locked.
Admits(h, i) ==
  /\ Exists(i)
  /\ \/ /\ job[h].op = "resubmit"
        /\ requests[i].requester = job[h].who
        /\ requests[i].status = "sent_back"
     \/ /\ job[h].op = "cancel"
        /\ requests[i].requester = job[h].who
        /\ requests[i].status \in Open
     \/ /\ job[h].op \in {"decide", "sendBack"}
        /\ MayAct(job[h].who, i)
        /\ requests[i].status = "pending"

\* Mutant: a plain SELECT, which neither waits nor locks.
ReadRowUnlocked(h) ==
  /\ pc[h] = "row"
  /\ IF Admits(h, job[h].id)
       THEN /\ Goto(h, IF job[h].op = "resubmit" THEN "check" ELSE "write")
            /\ UNCHANGED <<db, approvers, locks>>
       ELSE Rollback(h)

\* SELECT ... FOR UPDATE: waits for the row's holder, then reads the row as
\* committed; a refusal (404 or 409) rolls the transaction back.
LockRow(h) ==
  /\ pc[h] = "row"
  /\ rowLock[job[h].id] = Nobody
  /\ IF Admits(h, job[h].id)
       THEN /\ rowLock' = [rowLock EXCEPT ![job[h].id] = h]
            /\ Goto(h, IF job[h].op = "resubmit" THEN "check" ELSE "write")
            /\ UNCHANGED <<db, approvers, advisory>>
       ELSE Rollback(h)

\* What a duplicate check finds request i to claim: it looks at the requests of
\* its own type, for items that only payloads of that type name.
Held(i) == IF TypeOf[requests[i].payload] = requests[i].type
             THEN ClaimsOf[requests[i].payload] ELSE {}

\* An open request i holds one of the items payload c claims.
Clashes(c, i) == IsOpen(i) /\ ClaimsOf[c] \cap Held(i) # {}

\* assertCreatable, or assertResubmittable, which leaves the request itself out.
CheckDuplicates(h) ==
  /\ pc[h] = "check"
  /\ IF \E i \in Ids : /\ Clashes(job[h].payload, i)
                       /\ job[h].op = "resubmit" => i # job[h].id
       THEN Rollback(h)
       ELSE Goto(h, "write") /\ UNCHANGED <<db, locks, approvers>>

\* Mutant: the notification is sent although the decision was rolled back.
FailButNotify(h) ==
  /\ pc[h] = "write" /\ job[h].op = "decide"
  /\ pc' = [pc EXCEPT ![h] = "notify"]
  /\ job' = [job EXCEPT ![h] = [op |-> "notify", id |-> @.id, event |-> "approved"]]
  /\ ReleaseLocks(h)
  /\ UNCHANGED <<db, approvers>>

\* The handler of the type, or the database, throws: nothing is kept.
Fail(h) == pc[h] \in {"check", "write"} /\ Rollback(h)

\* The writes of one transaction and its timeline event become visible at once.
Commit(h, i, row, event) ==
  /\ pc[h] = "write"
  /\ requests' = [requests EXCEPT ![i] = row]
  /\ timeline' = [timeline EXCEPT ![i] = Append(@, event)]
  /\ ReleaseLocks(h)
  /\ UNCHANGED approvers

Announce(h, i, event) ==
  /\ pc' = [pc EXCEPT ![h] = "notify"]
  /\ job' = [job EXCEPT ![h] = [op |-> "notify", id |-> i, event |-> event]]

CommitCreate(h, i) ==
  /\ job[h].op = "create" /\ ~Exists(i)
  /\ Commit(h, i, [type |-> TypeOf[job[h].payload], status |-> "pending",
                   requester |-> job[h].who, scope |-> RouteOf[job[h].who],
                   payload |-> job[h].payload, decidedBy |-> Nobody], "raised")
  /\ Announce(h, i, "raised")

\* Mutant: the send-back's decision columns are not cleared.
ResubmitKeepsDecider(h, i) ==
  /\ job[h].op = "resubmit" /\ i = job[h].id
  /\ Commit(h, i, [requests[i] EXCEPT !.status = "pending",
                                      !.payload = job[h].payload], "resubmitted")
  /\ Announce(h, i, "resubmitted")

CommitResubmit(h, i) ==
  /\ job[h].op = "resubmit" /\ i = job[h].id
  /\ Commit(h, i, [requests[i] EXCEPT !.status = "pending",
                                      !.payload = job[h].payload,
                                      !.decidedBy = Nobody], "resubmitted")
  /\ Announce(h, i, "resubmitted")

CommitCancel(h, i) ==
  /\ job[h].op = "cancel" /\ i = job[h].id
  /\ Commit(h, i, [requests[i] EXCEPT !.status = "cancelled"], "cancelled")
  /\ Finish(h)

CommitDecide(h, i, verdict) ==
  /\ job[h].op = "decide" /\ i = job[h].id
  /\ Commit(h, i, [requests[i] EXCEPT !.status = verdict,
                                      !.decidedBy = job[h].who], verdict)
  /\ Announce(h, i, verdict)

CommitSendBack(h, i) ==
  /\ job[h].op = "sendBack" /\ i = job[h].id
  /\ Commit(h, i, [requests[i] EXCEPT !.status = "sent_back",
                                      !.decidedBy = job[h].who], "sent_back")
  /\ Announce(h, i, "sent_back")

\* After commit: approvers are told of a submit, the requester of a decision or
\* a send-back; a cancellation is told to nobody.
Notify(h) ==
  pc[h] = "notify" /\ Finish(h) /\ UNCHANGED <<db, locks, approvers>>

-----------------------------------------------------------------------------
\* The Assign-approvers, verifier and in-charge screens replace a scope's set.
SetApprovers(s, E) == /\ approvers' = [approvers EXCEPT ![s] = E]
                      /\ UNCHANGED <<db, locks, pc, job>>

\* The server restarts: Postgres rolls back what was in flight, and a
\* notification that was still to be sent is lost.
Restart == /\ pc' = [h \in Handlers |-> "idle"]
           /\ job' = [h \in Handlers |-> NoJob]
           /\ advisory' = [k \in LockKeys |-> Nobody]
           /\ rowLock' = [i \in Ids |-> Nobody]
           /\ UNCHANGED <<db, approvers>>

Start(h) ==
  /\ pc[h] = "idle"
  /\ \/ \E r \in Requesters, c \in Payloads : StartCreate(h, r, c)
     \/ \E r \in Requesters, i \in Ids :
           \/ \E c \in Payloads : StartResubmit(h, r, i, c)
           \/ StartCancel(h, r, i)
     \/ \E e \in Employees, i \in Ids : StartDecide(h, e, i) \/ StartSendBack(h, e, i)

CommitSome(h) == \E i \in Ids :
                   \/ CommitCreate(h, i)
                   \/ CommitResubmit(h, i)
                   \/ CommitCancel(h, i)
                   \/ \E verdict \in Decided : CommitDecide(h, i, verdict)
                   \/ CommitSendBack(h, i)

Proceed(h) == TakeAdvisoryLock(h) \/ LockRow(h) \/ CheckDuplicates(h) \/ CommitSome(h) \/ Notify(h)

Next == \/ \E h \in Handlers : Start(h) \/ Proceed(h) \/ Fail(h)
        \/ \E s \in Scopes, E \in SUBSET Employees : SetApprovers(s, E)
        \/ Restart

Spec == Init /\ [][Next]_vars

\* Every transaction the server has begun goes on; Postgres queues waiters for a
\* lock in order, so one that is freed again and again is got in the end.
FairSpec == /\ Spec
            /\ \A h \in Handlers : /\ WF_vars(Proceed(h))
                                   /\ SF_vars(TakeAdvisoryLock(h))
                                   /\ SF_vars(LockRow(h))

-----------------------------------------------------------------------------
(* Properties *)

HoldsKey(h) == \/ job[h].op = "create" /\ pc[h] \in {"check", "write"}
               \/ job[h].op = "resubmit" /\ pc[h] \in {"row", "check", "write"}

HoldsRow(h) == /\ job[h].op \in {"resubmit", "cancel", "decide", "sendBack"}
               /\ pc[h] \in {"check", "write"}

RowIsAsChecked(h) ==
  HoldsRow(h) =>
    /\ Exists(job[h].id)
    /\ job[h].op = "resubmit" => requests[job[h].id].status = "sent_back"
    /\ job[h].op = "cancel" => requests[job[h].id].status \in Open
    /\ job[h].op \in {"decide", "sendBack"} => requests[job[h].id].status = "pending"

ClaimsAreFree(h) ==
  pc[h] = "write" /\ job[h].op \in {"create", "resubmit"} =>
    \A i \in Ids : Clashes(job[h].payload, i) => job[h].op = "resubmit" /\ i = job[h].id

\* What a handler checked is still so when it writes, several statements later
\* and with other transactions committing in between: the status of the row it
\* locked, and that nothing else open clashes with what it submits.
ChecksStayValid == \A h \in Handlers : RowIsAsChecked(h) /\ ClaimsAreFree(h)

\* A transaction past its lock statement is the holder of that lock: of the
\* advisory lock for a submit, of the row for everything else.
LockDiscipline ==
  \A h \in Handlers :
    /\ HoldsKey(h) => advisory[LockKey[job[h].payload]] = h
    /\ HoldsRow(h) => rowLock[job[h].id] = h

\* While a request is open what it holds is its own: no profile field, company or
\* stretch of leave is under two open requests, whatever submits, resubmits,
\* send-backs and cancels race (assertCreatable under the advisory lock).
ClaimsExclusive ==
  \A i, j \in Ids : i # j /\ IsOpen(i) /\ IsOpen(j) => Held(i) \cap Held(j) = {}

\* Which operation a handler can be in at each statement.
OpMatchesPc ==
  \A h \in Handlers :
    /\ pc[h] \in {"lock", "check"} => job[h].op \in {"create", "resubmit"}
    /\ pc[h] = "row" => job[h].op \in {"resubmit", "cancel", "decide", "sendBack"}
    /\ pc[h] = "write" => job[h].op \in {"create", "resubmit", "cancel", "decide", "sendBack"}
    /\ pc[h] = "notify" => job[h].op = "notify"

\* Inductive: what the locks protect follows from who holds them, handler by
\* handler, so that nothing checked under a lock is stale when it is used.
IInv == TypeOK /\ OpMatchesPc /\ LockDiscipline /\ ChecksStayValid /\ ClaimsExclusive

\* The decision columns speak of the present: a request waiting for a decision
\* names no decider, though it may have been sent back before, and a decided one does.
DeciderMatchesStatus ==
  \A i \in Ids : Exists(i) =>
    /\ requests[i].status = "pending" => requests[i].decidedBy = Nobody
    /\ requests[i].status \in Decided \cup {"sent_back"} => requests[i].decidedBy # Nobody

StatusAfter(event) == IF event \in {"raised", "resubmitted"} THEN "pending" ELSE event

\* The history a request shows its owner ends where the request is, and every
\* step it records is one the lifecycle diagram allows.
TimelineIsHistory ==
  \A i \in Ids :
    LET t == timeline[i] IN
    /\ Exists(i) <=> t # <<>>
    /\ Exists(i) => /\ t[1] = "raised"
                    /\ requests[i].status = StatusAfter(t[Len(t)])
    /\ \A n \in 2..Len(t) :
          \/ t[n] \in Decided \cup {"sent_back"} /\ StatusAfter(t[n-1]) = "pending"
          \/ t[n] = "resubmitted" /\ t[n-1] = "sent_back"
          \/ t[n] = "cancelled" /\ StatusAfter(t[n-1]) \in Open

\* Whatever was decided, sent back, resubmitted or cancelled in whatever order, a
\* request's history and its decision columns tell the same story as its status.
HistoryIsTrue == TimelineIsHistory /\ DeciderMatchesStatus

\* Nobody is told of something that was rolled back: when a handler reaches its
\* notification, the event it announces is in the committed timeline.
NotifiesOnlyCommitted ==
  \A h \in Handlers : pc[h] = "notify" =>
     \E n \in 1..Len(timeline[job[h].id]) : timeline[job[h].id][n] = job[h].event

\* The row and advisory locks never wait for one another in a circle, and no
\* handler is left waiting: every request to the server gets its answer.
EveryHandlerEnds == \A h \in Handlers : pc[h] # "idle" ~> pc[h] = "idle"

StatusOf(i) == IF Exists(i) THEN requests[i].status ELSE "absent"
HeldOf(i) == IF Exists(i) THEN Held(i) ELSE {}

Lifecycle == INSTANCE RequestLifecycle WITH
  ClaimSets <- {{}} \cup {ClaimsOf[c] : c \in Payloads},
  status <- [i \in Ids |-> StatusOf(i)], held <- [i \in Ids |-> HeldOf(i)]

\* The transactions, their locks and their rollbacks together behave as the
\* atomic lifecycle: status and claims change only along the diagram.
ImplementsLifecycle == Lifecycle!Spec
=============================================================================
