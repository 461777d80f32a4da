----------------------- MODULE PlacementCatalog_proofs ----------------------
(***************************************************************************)
(* Theorems about what the placement catalog holds: the companies and the  *)
(* requests about them, for every number of companies, logos, requests and *)
(* handlers, whatever is read without a lock and overtaken; and the        *)
(* packages of a drive, for any designations, offer types and amounts.     *)
(***************************************************************************)
EXTENDS CompanyApprovals, PlacementPackages, ApprovalRequests_proofs

\* Whatever asks for a company, a request or a handler on its way to one, asks for
\* one that is in the catalog.
CompaniesExist ==
  /\ \A i \in Ids : Exists(i) => companies[requests[i].payload.company] # Absent
  /\ \A h \in Handlers : job[h].op \in {"create", "resubmit"} =>
                            companies[job[h].payload.company] # Absent

\* Request i is about company c.
About(i, c) == i \in Ids /\ Exists(i) /\ requests[i].payload.company = c

\* The kind of proposal p fits its company as long as request i is open, unless
\* something came too late for that company.
FitsWhileOpen(i, p) ==
  IsOpen(i) /\ p.company \notin outpaced =>
    (p.kind = "update" <=> companies[p.company].status = "approved")

\* What a screen holds of a row it has loaded need not be so any more; but it never
\* makes a company live, its request is about its company, and the proposal it holds
\* fits if it is still open.
EditFits(h) ==
  LET e == edit[h] IN
  e # NoEdit =>
    /\ pc[h] = "idle" /\ companies[e.company] # Absent
    /\ e.op = "logo" => e.logo \in Logos
    /\ e.step \in {"sync", "syncReload", "syncFlush"} => e.op = "logo"
    /\ e.step = "open" => e.entity \in Company
    /\ e.step \in {"reload", "flush"} => e.entity \in Company /\ e.entity.status # "approved"
    /\ e.open # Absent => About(e.open, e.company)
    /\ e.step \in {"syncReload", "syncFlush"} =>
         /\ About(e.open, e.company)
         /\ e.entity \in Row /\ e.entity.payload.company = e.company
         /\ FitsWhileOpen(e.open, e.entity.payload)

KindAsRead(h, status) == (job[h].payload.kind = "update") <=> (status = "approved")

\* A submitter writes only what fitted the company as it was read, and a resubmit
\* does not take a request to another company.
SubmitFits(h) ==
  /\ seen[h] # "unread" => pc[h] \in {"check", "write"} /\ job[h].op \in {"create", "resubmit"}
  /\ pc[h] = "write" /\ job[h].op \in {"create", "resubmit"} =>
       seen[h] # "unread" /\ KindAsRead(h, seen[h])
  /\ job[h].op = "resubmit" => About(job[h].id, job[h].payload.company)

\* A request whose status came back is about a company that is known to be late.
LateAreKnown == \A i \in overwritten : Exists(i) /\ requests[i].payload.company \in outpaced

\* The requests that no late save has moved: what the locks protect, of these.
Untouched == Ids \ overwritten

CatalogIInv ==
  /\ IInvIn(Untouched) /\ CatalogInv /\ CompaniesExist /\ LateAreKnown
  /\ \A h \in Handlers : EditFits(h) /\ SubmitFits(h)

-----------------------------------------------------------------------------
(* Data *)

LEMMA PayloadFields ==
  ASSUME NEW p \in Payloads
  PROVE  /\ p.kind \in {"create", "update"} /\ p.company \in Companies /\ p.details \in Details
         /\ p.logo \in Logos \cup {NoLogo} /\ p.current \in Logos \cup {NoLogo}
         /\ ClaimsOf[p] = {p.company} /\ LockKey[p] = p.company /\ TypeOf[p] = "company_approval"
  BY CompanyType DEF CompanyPayloads

LEMMA EditFields ==
  ASSUME NEW e \in Edit
  PROVE  /\ e.op \in {"update", "logo"} /\ e.who \in Requesters /\ e.company \in Companies
         /\ e.details \in Details /\ e.logo \in Logos \cup {NoLogo, Keep}
         /\ e.previous \in Logos \cup {NoLogo} /\ e.entity \in Company \cup Row
         /\ e.dirty \subseteq Columns /\ e.open \in Ids \cup {Absent}
         /\ e.step \in {"open", "reload", "flush", "submit", "sync", "syncReload", "syncFlush"}
         /\ e # NoEdit
  BY DEF Edit, NoEdit

\* The save of a company writes what is dirty and keeps the rest.
LEMMA FlushedCompany ==
  ASSUME NEW row \in Company, NEW entity \in Company, NEW dirty
  PROVE  /\ Flushed(entity, dirty, row) \in Company
         /\ Flushed(entity, dirty, row).status \in {entity.status, row.status}
<1> DEFINE new == [status |-> IF "status" \in dirty THEN entity.status ELSE row.status,
                   details |-> IF "details" \in dirty THEN entity.details ELSE row.details,
                   logo |-> IF "logo" \in dirty THEN entity.logo ELSE row.logo]
<1>1. DOMAIN row = {"status", "details", "logo"}
  BY DEF Company
<1>2. Flushed(entity, dirty, row) = new
  BY <1>1 DEF Flushed, Company
<1>3. new \in Company /\ new.status \in {entity.status, row.status}
  BY DEF Company
<1> QED BY <1>2, <1>3

\* So does the save of a request, whose columns each come from one of the two.
LEMMA FlushedRequest ==
  ASSUME NEW row \in Row, NEW entity \in Row, NEW dirty
  PROVE  LET new == Flushed(entity, dirty, row) IN
         /\ new \in Row /\ new.status \in {entity.status, row.status}
         /\ new.payload \in {entity.payload, row.payload}
<1> DEFINE new == [type |-> IF "type" \in dirty THEN entity.type ELSE row.type,
                   status |-> IF "status" \in dirty THEN entity.status ELSE row.status,
                   requester |-> IF "requester" \in dirty THEN entity.requester ELSE row.requester,
                   scope |-> IF "scope" \in dirty THEN entity.scope ELSE row.scope,
                   payload |-> IF "payload" \in dirty THEN entity.payload ELSE row.payload,
                   decidedBy |-> IF "decidedBy" \in dirty THEN entity.decidedBy ELSE row.decidedBy]
<1>1. DOMAIN row = {"type", "status", "requester", "scope", "payload", "decidedBy"}
  BY DEF Row
<1>2. Flushed(entity, dirty, row) = new
  BY <1>1 DEF Flushed, Row
<1>3. /\ new \in Row /\ new.status \in {entity.status, row.status}
      /\ new.payload \in {entity.payload, row.payload}
  BY DEF Row
<1> QED BY <1>2, <1>3

\* What the invariant says of the rows the steps below name.
LEMMA RowFields ==
  ASSUME CatalogIInv, NEW i \in Ids, Exists(i)
  PROVE  /\ requests[i] \in Row /\ requests[i].payload \in Payloads
         /\ requests[i].payload.company \in Companies
         /\ companies[requests[i].payload.company] # Absent
         /\ Held(i) = {requests[i].payload.company}
<1>1. requests[i] \in Row
  BY DEF CatalogIInv, IInvIn, TypeOK, Exists
<1>2. requests[i].payload \in Payloads /\ requests[i].type = "company_approval"
  BY <1>1, CompanyType DEF Row
<1> QED BY <1>1, <1>2, PayloadFields DEF CatalogIInv, CompaniesExist, Held

\* What a submitter's payload is about.
LEMMA SubmitterFields ==
  ASSUME CatalogIInv, NEW h \in Handlers, job[h].op \in {"create", "resubmit"}
  PROVE  /\ job[h].payload \in Payloads /\ job[h].payload.company \in Companies
         /\ companies[job[h].payload.company] # Absent
  BY JobFields, PayloadFields DEF CatalogIInv, CompaniesExist, IInvIn, TypeOK

LEMMA CompanyFields ==
  ASSUME CatalogIInv, NEW h \in Handlers, edit[h] # NoEdit
  PROVE  /\ edit[h] \in Edit /\ EditFits(h) /\ pc[h] = "idle" /\ edit[h].company \in Companies
         /\ companies[edit[h].company] \in Company /\ companies[edit[h].company] # Absent
<1>1. edit[h] \in Edit /\ EditFits(h)
  BY DEF CatalogIInv, CatalogInv, CompanyTypeOK
<1>2. pc[h] = "idle" /\ companies[edit[h].company] # Absent
  BY <1>1 DEF EditFits
<1> QED BY <1>1, <1>2, EditFields DEF CatalogIInv, CatalogInv, CompanyTypeOK

\* Nobody has locked a row that is free.
LEMMA FreeRowIsNotHeld ==
  ASSUME CatalogIInv, NEW i \in Ids, rowLock[i] = Nobody, NEW g \in Handlers, HoldsRow(g)
  PROVE  job[g].id # i
  BY RoutingData DEF CatalogIInv, IInvIn, LockDiscipline

\* Of a company for which nothing came too late there is one open request.
LEMMA OneOpenRequest ==
  ASSUME CatalogIInv, NEW i \in Ids, NEW j \in Ids, IsOpen(i), IsOpen(j),
         requests[i].payload.company = requests[j].payload.company,
         requests[i].payload.company \notin outpaced
  PROVE  i = j
<1>1. i \in Untouched /\ j \in Untouched
  BY DEF CatalogIInv, LateAreKnown, Untouched
<1>2. Held(i) = Held(j) /\ Held(i) # {}
  BY RowFields DEF IsOpen
<1> QED BY <1>1, <1>2 DEF CatalogIInv, IInvIn, ClaimsExclusiveIn

-----------------------------------------------------------------------------
(* The framework underneath *)

\* A step of the catalog is a step of the framework, or the fold of a logo.
Acts(h) ==
  \/ Screen(h) \/ Framework(h) \/ FailTransaction(h)
  \/ ReadCompany(h) \/ CheckSubmittable(h) \/ CommitSubmit(h)
  \/ \E i \in Ids : ApproveCompany(h, i) \/ RejectCompany(h, i)
  \/ NotifyDecision(h) \/ NotifyOther(h)

LEMMA StepCasesOfCatalog ==
  ASSUME [CompanyNext]_companyVars
  PROVE  \/ \E h \in Handlers : Acts(h)
         \/ \E s \in Scopes, E \in SUBSET Employees :
               SetApprovers(s, E) /\ UNCHANGED <<screens, seen, history>>
         \/ CompanyRestart
         \/ UNCHANGED companyVars
  BY DEF CompanyNext, Acts

\* The payload a screen submits is one of the framework's.
LEMMA PayloadForTypes ==
  ASSUME CatalogIInv, NEW h \in Handlers, edit[h] # NoEdit
  PROVE  PayloadFor(edit[h]) \in Payloads /\ PayloadFor(edit[h]).company = edit[h].company
<1>1. edit[h] \in Edit /\ companies[edit[h].company] \in Company
  BY CompanyFields
<1>2. companies[edit[h].company].logo \in Logos \cup {NoLogo}
  BY <1>1 DEF Company
<1> QED BY <1>1, <1>2, EditFields, CompanyType DEF PayloadFor, KindOf, CompanyPayloads

LEMMA ScreenIsStart ==
  ASSUME CatalogIInv, NEW h \in Handlers, Screen(h)
  PROVE  \/ (UNCHANGED vars \/ Start(h)) /\ UNCHANGED overwritten
         \/ FlushRequest(h)
<1>1. ASSUME Submit(h) PROVE Start(h)
  <2>1. edit[h] \in Edit
    BY <1>1 DEF Submit, Step, CatalogIInv, CatalogInv, CompanyTypeOK, NoEdit
  <2>2. PayloadFor(edit[h]) \in Payloads /\ edit[h].who \in Requesters /\ edit[h].open \in Ids \cup {Absent}
    BY <2>1, PayloadForTypes, EditFields
  <2> QED BY <1>1, <2>2 DEF Submit, Start, StartCreate, StartResubmit, Begin
<1> QED BY <1>1 DEF Screen, CreateCompany, LoadCompany, UploadLogo, FindOpenRequest, ReloadCompany,
               FlushCompany, Submit, AbandonEdit, LoadRequest, ReloadRequest, history

LEMMA FrameworkIsFramework ==
  ASSUME CatalogIInv, NEW h \in Handlers, Framework(h)
  PROVE  /\ UNCHANGED <<companies, objects, edit, seen, outpaced, overwritten>>
         /\ \/ Start(h) /\ Free(h) /\ job'[h].op \in {"cancel", "decide", "sendBack"}
            \/ TakeAdvisoryLock(h) \/ LockRow(h)
            \/ CommitSome(h) /\ job[h].op \in {"cancel", "sendBack"}
<1>0. UNCHANGED <<companies, objects, edit, seen, outpaced, overwritten>>
  BY DEF Framework, screens, history
<1>1. CASE Free(h) /\ \E i \in Ids : \/ \E r \in Requesters : StartCancel(h, r, i)
                                     \/ \E e \in Employees : StartDecide(h, e, i) \/ StartSendBack(h, e, i)
  <2>1. Start(h)
    BY <1>1 DEF Free, Start
  <2>2. job \in [Handlers -> Jobs]
    BY DEF CatalogIInv, IInvIn, TypeOK
  <2>3. job'[h].op \in {"cancel", "decide", "sendBack"}
    BY <1>1, <2>2 DEF StartCancel, StartDecide, StartSendBack, Begin
  <2> QED BY <1>0, <1>1, <2>1, <2>3
<1>2. CASE \E i \in Ids : CommitCancel(h, i) \/ CommitSendBack(h, i)
  <2>1. CommitSome(h) /\ job[h].op \in {"cancel", "sendBack"}
    BY <1>2 DEF CommitSome, CommitCancel, CommitSendBack
  <2> QED BY <1>0, <2>1
<1> QED BY <1>0, <1>1, <1>2 DEF Framework

\* Everything else a handler does is a step of the framework too, by the part it
\* plays there.
LEMMA OthersAreFramework ==
  ASSUME NEW h \in Handlers
  PROVE  /\ CheckSubmittable(h) => CheckDuplicates(h) \/ Fail(h)
         /\ CommitSubmit(h) => CommitSome(h)
         /\ (\E i \in Ids : ApproveCompany(h, i) \/ RejectCompany(h, i)) => CommitSome(h)
         /\ NotifyDecision(h) \/ NotifyOther(h) => Notify(h)
         /\ FailTransaction(h) => Fail(h)
         /\ ReadCompany(h) => UNCHANGED vars
         /\ (CheckSubmittable(h) \/ CommitSubmit(h) \/ NotifyDecision(h) \/ NotifyOther(h)
               \/ FailTransaction(h) \/ ReadCompany(h)
               \/ \E i \in Ids : ApproveCompany(h, i) \/ RejectCompany(h, i)) => UNCHANGED overwritten
<1>1. CheckSubmittable(h) => CheckDuplicates(h) \/ Fail(h)
  BY DEF CheckSubmittable, Fail
<1>2. CommitSubmit(h) => CommitSome(h)
  BY DEF CommitSubmit, CommitSome
<1>3. (\E i \in Ids : ApproveCompany(h, i) \/ RejectCompany(h, i)) => CommitSome(h)
  BY DEF ApproveCompany, RejectCompany, CommitSome, Decided
<1> QED BY <1>1, <1>2, <1>3
        DEF NotifyDecision, NotifyOther, FailTransaction, ReadCompany, CheckSubmittable, CommitSubmit,
            ApproveCompany, RejectCompany, history

LEMMA CatalogStepIsFrameworkStep ==
  ASSUME CatalogIInv, [CompanyNext]_companyVars
  PROVE  ([Next]_vars /\ UNCHANGED overwritten) \/ \E h \in Handlers : FlushRequest(h)
<1>1. ASSUME NEW h \in Handlers, Acts(h) PROVE ([Next]_vars /\ UNCHANGED overwritten) \/ FlushRequest(h)
  <2>1. CASE Screen(h)
    BY <2>1, ScreenIsStart DEF Next
  <2>2. CASE Framework(h)
    BY <2>2, FrameworkIsFramework DEF Next, Proceed
  <2>3. CASE ~Screen(h) /\ ~Framework(h)
    BY <1>1, <2>3, OthersAreFramework DEF Acts, Next, Proceed
  <2> QED BY <2>1, <2>2, <2>3
<1>2. CASE CompanyRestart
  BY <1>2 DEF CompanyRestart, Next, history
<1>3. CASE UNCHANGED companyVars
  BY <1>3 DEF companyVars
<1>4. ASSUME NEW s \in Scopes, NEW E \in SUBSET Employees, SetApprovers(s, E),
             UNCHANGED <<screens, seen, history>>
      PROVE  [Next]_vars /\ UNCHANGED overwritten
  BY <1>4 DEF Next, history
<1> QED BY <1>1, <1>2, <1>3, <1>4, StepCasesOfCatalog

\* Folding a logo into request i keeps its company; each column is the row's or the
\* one that was loaded.  The status may be the loaded one again.
Folds(h, i) ==
  LET e == edit[h] IN
  /\ Step(h, "syncFlush") /\ e # NoEdit /\ edit'[h] = NoEdit /\ i = e.open
  /\ UNCHANGED <<timeline, approvers, locks, pc, job, companies, seen>>
  /\ Exists(i) /\ rowLock[i] = Nobody
  /\ requests' = [requests EXCEPT ![i] = requests'[i]] /\ requests'[i] \in Row
  /\ requests'[i].payload \in {requests[i].payload, e.entity.payload}
  /\ requests'[i].payload.company = requests[i].payload.company
  /\ requests'[i].status \in {requests[i].status, e.entity.status}
  /\ IF requests'[i].status = requests[i].status THEN UNCHANGED <<outpaced, overwritten>>
       ELSE /\ overwritten' = overwritten \cup {i}
            /\ outpaced' = outpaced \cup {requests[i].payload.company}

LEMMA FlushRequestFolds ==
  ASSUME CatalogIInv, NEW h \in Handlers, FlushRequest(h)
  PROVE  edit[h].open \in Ids /\ Folds(h, edit[h].open)
<1> DEFINE e == edit[h]
           i == e.open
<1>1. e.step = "syncFlush" /\ e # NoEdit
  BY DEF FlushRequest, Step, NoEdit
<1>2. e \in Edit /\ EditFits(h)
  BY <1>1, CompanyFields
<1>3. /\ i \in Ids /\ Exists(i) /\ requests[i].payload.company = e.company
      /\ e.entity \in Row /\ e.entity.payload.company = e.company
  BY <1>1, <1>2 DEF EditFits, About
<1>4. requests \in [Ids -> Row \cup {Absent}] /\ requests[i] \in Row
  BY <1>3, RowFields DEF CatalogIInv, IInvIn, TypeOK
<1>5. requests' = [requests EXCEPT ![i] = Flushed(e.entity, e.dirty, requests[i])]
  BY DEF FlushRequest
<1>6. /\ requests'[i] = Flushed(e.entity, e.dirty, requests[i])
      /\ requests' = [requests EXCEPT ![i] = requests'[i]]
  BY <1>3, <1>4, <1>5
<1>7. /\ requests'[i] \in Row /\ requests'[i].status \in {e.entity.status, requests[i].status}
      /\ requests'[i].payload \in {e.entity.payload, requests[i].payload}
  BY <1>3, <1>4, <1>6, FlushedRequest
<1>8. /\ UNCHANGED <<timeline, approvers, locks, pc, job, companies, seen>> /\ rowLock[i] = Nobody
      /\ EndEdit(h)
      /\ IF requests'[i].status = requests[i].status THEN UNCHANGED <<outpaced, overwritten>>
           ELSE overwritten' = overwritten \cup {i} /\ outpaced' = outpaced \cup {e.company}
  BY DEF FlushRequest, history
<1>9. edit'[h] = NoEdit
  BY <1>8 DEF EndEdit, SetEdit, CatalogIInv, CatalogInv, CompanyTypeOK
<1> HIDE DEF e, i
<1>10. i = edit[h].open /\ e = edit[h]
  BY DEF e, i
<1> QED BY <1>1, <1>3, <1>6, <1>7, <1>8, <1>9, <1>10 DEF Folds, Step

\* What the locks protect is untouched by a fold, but for the request it moves.
LEMMA FoldKeepsIInv ==
  ASSUME CatalogIInv, NEW h \in Handlers, NEW i \in Ids, Folds(h, i)
  PROVE  IInvIn(Untouched)'
<1> DEFINE new == requests'[i]
<1>1. /\ requests' = [requests EXCEPT ![i] = new] /\ requests[i] \in Row /\ new \in Row
      /\ requests[i] # Absent /\ new # Absent /\ new.payload.company = requests[i].payload.company
      /\ UNCHANGED <<timeline, approvers, advisory, rowLock, pc, job>>
  BY RoutingData, RowFields DEF Folds, Exists, locks
<1>2. requests \in [Ids -> Row \cup {Absent}] /\ IInvIn(Untouched)
  BY DEF CatalogIInv, IInvIn, TypeOK
<1>3. Held(i)' = Held(i)
  <2>1. new.payload \in Payloads /\ new.type = "company_approval"
    BY <1>1, CompanyType DEF Row
  <2>2. Held(i)' = {new.payload.company}
    BY <2>1, PayloadFields DEF Held
  <2> QED BY <1>1, <2>2, RowFields DEF Exists
<1>4. \A j \in Ids : /\ requests'[j] = Absent <=> requests[j] = Absent
                     /\ j # i => requests'[j] = requests[j]
                     /\ Held(j)' = Held(j)
  BY <1>1, <1>2, <1>3 DEF Held
<1>5. \A j \in Untouched' : j \in Untouched /\ (IsOpen(j)' <=> IsOpen(j))
  <2> SUFFICES ASSUME NEW j \in Ids, j \notin overwritten'
               PROVE  j \notin overwritten /\ (IsOpen(j)' <=> IsOpen(j))
    BY DEF Untouched
  <2>1. j = i => new.status = requests[i].status
    BY DEF Folds
  <2> QED BY <1>4, <2>1 DEF Folds, IsOpen, Exists
<1>6. TypeOK'
  BY <1>1, <1>2 DEF IInvIn, TypeOK
<1>7. OpMatchesPc' /\ LockDiscipline'
  BY <1>1, <1>2 DEF IInvIn, OpMatchesPc, LockDiscipline, HoldsKey, HoldsRow
<1>8. ASSUME NEW g \in Handlers PROVE RowIsAsChecked(g)'
  <2> SUFFICES ASSUME HoldsRow(g) PROVE RowIsAsChecked(g)'
    BY <1>1 DEF RowIsAsChecked, HoldsRow
  <2>1. job[g].id \in Ids /\ job[g].id # i /\ RowIsAsChecked(g)
    <3>1. job[g].id \in Ids /\ RowIsAsChecked(g)
      BY <1>2, JobFields DEF IInvIn, TypeOK, HoldsRow, ChecksStayValidIn
    <3>2. rowLock[i] = Nobody
      BY DEF Folds
    <3> QED BY <3>1, <3>2, FreeRowIsNotHeld
  <2>2. requests'[job[g].id] = requests[job[g].id] /\ job'[g] = job[g]
    BY <1>1, <1>4, <2>1
  <2> QED BY <1>1, <2>1, <2>2 DEF RowIsAsChecked, HoldsRow, Exists
<1>9. ASSUME NEW g \in Handlers PROVE ClaimsAreFreeIn(g, Untouched)'
  <2> SUFFICES ASSUME pc'[g] = "write", job'[g].op \in {"create", "resubmit"},
                      NEW j \in Untouched', Clashes(job[g].payload, j)'
               PROVE  job'[g].op = "resubmit" /\ j = job'[g].id
    BY DEF ClaimsAreFreeIn
  <2>1. /\ pc[g] = "write" /\ job'[g] = job[g] /\ j \in Untouched /\ j \in Ids
        /\ Clashes(job[g].payload, j)
    <3>1. pc[g] = "write" /\ job'[g] = job[g] /\ j \in Untouched /\ j \in Ids
      BY <1>1, <1>5 DEF Untouched
    <3>2. Clashes(job[g].payload, j)
      BY <1>4, <1>5, <3>1 DEF Clashes
    <3> QED BY <3>1, <3>2
  <2> QED BY <1>2, <2>1 DEF IInvIn, ChecksStayValidIn, ClaimsAreFreeIn
<1>10. ClaimsExclusiveIn(Untouched)'
  <2> SUFFICES ASSUME NEW j \in Untouched', NEW k \in Untouched', j # k, IsOpen(j)', IsOpen(k)'
               PROVE  Held(j)' \cap Held(k)' = {}
    BY DEF ClaimsExclusiveIn
  <2>1. j \in Ids /\ k \in Ids
    BY DEF Untouched
  <2> QED BY <1>2, <1>4, <1>5, <2>1 DEF IInvIn, ClaimsExclusiveIn
<1> QED BY <1>6, <1>7, <1>8, <1>9, <1>10 DEF IInvIn, ChecksStayValidIn

LEMMA CatalogKeepsIInv == CatalogIInv /\ [CompanyNext]_companyVars => IInvIn(Untouched)'
<1> SUFFICES ASSUME CatalogIInv, [CompanyNext]_companyVars PROVE IInvIn(Untouched)'
  OBVIOUS
<1>1. ASSUME NEW h \in Handlers, FlushRequest(h) PROVE IInvIn(Untouched)'
  BY <1>1, FlushRequestFolds, FoldKeepsIInv
<1>2. ASSUME [Next]_vars, UNCHANGED overwritten PROVE IInvIn(Untouched)'
  <2>1. PICK I \in SUBSET Ids : I = Untouched
    BY DEF Untouched
  <2>2. I = Untouched'
    BY <1>2, <2>1 DEF Untouched
  <2>3. IInvIn(I)
    BY <2>1 DEF CatalogIInv
  <2>4. IInvIn(I)'
    BY <1>2, <2>3, StepIInvIn
  <2> QED BY <2>2, <2>4 DEF IInvIn, ChecksStayValidIn, ClaimsExclusiveIn, ClaimsAreFreeIn
<1> QED BY <1>1, <1>2, CatalogStepIsFrameworkStep

-----------------------------------------------------------------------------
(* What a step does to the catalog, and to the handlers that take no part in it *)

Created(c) == companies[c] = Absent /\ companies'[c].status = "pending"

\* A screen saves a company: too late for the state it is in, or one that is not live
\* and stays as it was; it never makes one live.
Edited(h, c) ==
  /\ companies[c].status = "approved" \/ companies'[c].status # "approved"
  /\ \/ SavesLate(h, c) /\ c \in outpaced'
     \/ companies[c].status # "approved" /\ companies'[c].status = companies[c].status

\* The one decision of a request about the company.
DecidesOn(h, i, c) ==
  /\ pc[h] = "write" /\ job[h].op = "decide" /\ i = job[h].id
  /\ IsOpen(i) /\ requests[i].status = "pending" /\ requests[i].payload.company = c
  /\ \/ /\ requests'[i].status = "approved"
        /\ companies'[c] = [status |-> "approved", details |-> requests[i].payload.details,
                                                   logo |-> requests[i].payload.logo]
     \/ /\ requests'[i].status = "rejected" /\ requests[i].payload.kind = "create"
        /\ companies'[c].status = "rejected"

Moves(h, c) ==
  /\ companies' = [companies EXCEPT ![c] = companies'[c]] /\ companies'[c] \in Company
  /\ \/ Created(c)
     \/ companies[c] # Absent /\ (Edited(h, c) \/ \E i \in Ids : DecidesOn(h, i, c))

LEMMA CreateMoves ==
  ASSUME CatalogIInv, NEW h \in Handlers, NEW r \in Requesters, NEW c \in Companies, NEW d \in Details,
         CreateCompany(h, r, c, d)
  PROVE  Moves(h, c)
<1> DEFINE row == [status |-> "pending", details |-> d, logo |-> NoLogo]
<1>1. row \in Company
  BY DEF Company
<1>2. companies' = [companies EXCEPT ![c] = row] /\ companies[c] = Absent
  BY DEF CreateCompany
<1>3. companies'[c] = row
  BY <1>2 DEF CatalogIInv, CatalogInv, CompanyTypeOK
<1>4. Created(c)
  BY <1>2, <1>3 DEF Created
<1> HIDE DEF row
<1> QED BY <1>1, <1>2, <1>3, <1>4 DEF Moves

LEMMA FlushMoves ==
  ASSUME CatalogIInv, NEW h \in Handlers, FlushCompany(h)
  PROVE  edit[h].company \in Companies /\ Moves(h, edit[h].company)
<1> DEFINE e == edit[h]
           c == e.company
<1>1. e.step = "flush" /\ e # NoEdit
  BY DEF FlushCompany, Step, NoEdit
<1>2. /\ e \in Edit /\ c \in Companies /\ companies[c] \in Company /\ companies[c] # Absent
      /\ e.entity \in Company /\ e.entity.status # "approved"
  BY <1>1, CompanyFields DEF EditFits
<1>3. companies' = [companies EXCEPT ![c] = Flushed(e.entity, e.dirty, companies[c])]
  BY DEF FlushCompany
<1>4. companies'[c] = Flushed(e.entity, e.dirty, companies[c])
  BY <1>2, <1>3 DEF CatalogIInv, CatalogInv, CompanyTypeOK
<1>5. companies'[c] \in Company /\ companies'[c].status \in {e.entity.status, companies[c].status}
  BY <1>2, <1>4, FlushedCompany
<1>6. edit'[h] # e
  <2>1. edit'[h] = [e EXCEPT !.step = IF e.op = "update" THEN "submit" ELSE "sync", !.dirty = {}]
    BY DEF FlushCompany, SetEdit, CatalogIInv, CatalogInv, CompanyTypeOK
  <2>2. edit'[h].step # "flush"
    BY <1>2, <2>1 DEF Edit
  <2> QED BY <1>1, <2>2
<1>7. e.entity.status # companies[c].status => SavesLate(h, c) /\ c \in outpaced'
  BY <1>1, <1>6 DEF SavesLate, Step, FlushCompany, Outpaced
<1>8. Edited(h, c)
  BY <1>2, <1>5, <1>7 DEF Edited
<1> QED BY <1>2, <1>3, <1>4, <1>5, <1>8 DEF Moves

\* What a handler about to decide has locked is a request waiting for it.
LEMMA DeciderKnows ==
  ASSUME CatalogIInv, NEW h \in Handlers, NEW i \in Ids, NEW verdict \in Decided, CommitDecide(h, i, verdict)
  PROVE  /\ pc[h] = "write" /\ job[h].op = "decide" /\ i = job[h].id
         /\ IsOpen(i) /\ requests[i].status = "pending"
         /\ requests'[i].status = verdict
<1>1. pc[h] = "write" /\ job[h].op = "decide" /\ i = job[h].id
  BY DEF CommitDecide, Commit
<1>2. Exists(i) /\ requests[i].status = "pending"
  BY <1>1 DEF CatalogIInv, IInvIn, ChecksStayValidIn, RowIsAsChecked, HoldsRow
<1>3. requests \in [Ids -> Row \cup {Absent}] /\ requests[i] \in Row
  BY <1>2 DEF CatalogIInv, IInvIn, TypeOK, Exists
<1>4. requests' = [requests EXCEPT ![i] = [requests[i] EXCEPT !.status = verdict, !.decidedBy = job[h].who]]
  BY DEF CommitDecide, Commit
<1>5. requests'[i].status = verdict
  BY <1>3, <1>4 DEF Row
<1> QED BY <1>1, <1>2, <1>5 DEF IsOpen, Open

LEMMA ApproveMoves ==
  ASSUME CatalogIInv, NEW h \in Handlers, NEW i \in Ids, ApproveCompany(h, i)
  PROVE  requests[i].payload.company \in Companies /\ Moves(h, requests[i].payload.company)
<1> DEFINE p == requests[i].payload
           c == p.company
           row == [status |-> "approved", details |-> p.details, logo |-> p.logo]
<1>1. CommitDecide(h, i, "approved")
  BY DEF ApproveCompany
<1>2. /\ pc[h] = "write" /\ job[h].op = "decide" /\ i = job[h].id
      /\ IsOpen(i) /\ requests[i].status = "pending" /\ requests'[i].status = "approved"
  BY <1>1, DeciderKnows DEF Decided
<1>3. p \in Payloads /\ companies[c] # Absent
  BY <1>2, RowFields DEF IsOpen
<1>4. c \in Companies /\ row \in Company
  BY <1>3, PayloadFields DEF Company
<1>5. companies' = [companies EXCEPT ![c] = row]
  BY DEF ApproveCompany
<1>6. companies'[c] = row
  BY <1>4, <1>5 DEF CatalogIInv, CatalogInv, CompanyTypeOK
<1>7. DecidesOn(h, i, c)
  BY <1>2, <1>6 DEF DecidesOn
<1> QED BY <1>3, <1>4, <1>5, <1>6, <1>7 DEF Moves

\* Refusing a new company moves it; refusing an edit moves nothing.
LEMMA RejectMoves ==
  ASSUME CatalogIInv, NEW h \in Handlers, NEW i \in Ids, RejectCompany(h, i)
  PROVE  /\ requests[i].payload.company \in Companies
         /\ UNCHANGED companies \/ Moves(h, requests[i].payload.company)
<1> DEFINE p == requests[i].payload
           c == p.company
<1>1. CommitDecide(h, i, "rejected")
  BY DEF RejectCompany
<1>2. /\ pc[h] = "write" /\ job[h].op = "decide" /\ i = job[h].id
      /\ IsOpen(i) /\ requests[i].status = "pending" /\ requests'[i].status = "rejected"
  BY <1>1, DeciderKnows DEF Decided
<1>3. c \in Companies /\ companies[c] # Absent
  BY <1>2, RowFields DEF IsOpen
<1>4. companies \in [Companies -> Company \cup {Absent}] /\ companies[c] \in Company
  BY <1>3 DEF CatalogIInv, CatalogInv, CompanyTypeOK
<1>5. CASE p.kind = "create"
  <2>1. companies' = [companies EXCEPT ![c] = [@ EXCEPT !.status = "rejected"]]
    BY <1>5 DEF RejectCompany
  <2>2. companies'[c] = [companies[c] EXCEPT !.status = "rejected"]
    BY <1>3, <1>4, <2>1
  <2>3. companies'[c] \in Company /\ companies'[c].status = "rejected"
    BY <1>4, <2>2 DEF Company
  <2>4. companies' = [companies EXCEPT ![c] = companies'[c]]
    BY <1>4, <2>1, <2>2
  <2>5. DecidesOn(h, i, c)
    BY <1>2, <1>5, <2>3 DEF DecidesOn
  <2> QED BY <1>3, <2>3, <2>4, <2>5 DEF Moves
<1>6. CASE p.kind # "create"
  BY <1>3, <1>6 DEF RejectCompany
<1> QED BY <1>5, <1>6

LEMMA CatalogMoves ==
  ASSUME CatalogIInv, NEW h \in Handlers, Acts(h)
  PROVE  UNCHANGED companies \/ \E c \in Companies : Moves(h, c)
<1>1. CASE Screen(h)
  <2>1. CASE \E r \in Requesters, c \in Companies, d \in Details : CreateCompany(h, r, c, d)
    BY <2>1, CreateMoves
  <2>2. CASE FlushCompany(h)
    BY <2>2, FlushMoves
  <2> QED BY <1>1, <2>1, <2>2 DEF Screen, LoadCompany, UploadLogo, FindOpenRequest, ReloadCompany,
                Submit, AbandonEdit, LoadRequest, ReloadRequest, FlushRequest
<1>2. CASE \E i \in Ids : ApproveCompany(h, i) \/ RejectCompany(h, i)
  BY <1>2, ApproveMoves, RejectMoves
<1>3. CASE Framework(h) \/ FailTransaction(h) \/ ReadCompany(h) \/ CheckSubmittable(h)
             \/ CommitSubmit(h) \/ NotifyDecision(h) \/ NotifyOther(h)
  BY <1>3 DEF Framework, FailTransaction, ReadCompany, CheckSubmittable, CommitSubmit, NotifyDecision,
              NotifyOther, screens
<1> QED BY <1>1, <1>2, <1>3 DEF Acts

\* A company stays in the catalog.
LEMMA CompaniesStay ==
  ASSUME CatalogIInv, NEW h \in Handlers, Acts(h), NEW c \in Companies, companies[c] # Absent
  PROVE  companies'[c] # Absent
<1>1. UNCHANGED companies \/ \E d \in Companies :
        companies' = [companies EXCEPT ![d] = companies'[d]] /\ companies'[d] \in Company
  BY CatalogMoves DEF Moves
<1> QED BY <1>1, CompanyRows DEF CatalogIInv, CatalogInv, CompanyTypeOK

\* A company that something came too late for stays known as such.
LEMMA LateStaysKnown ==
  ASSUME CatalogIInv, NEW h \in Handlers, Acts(h)
  PROVE  /\ outpaced \subseteq outpaced' /\ outpaced' \subseteq Companies
         /\ overwritten \subseteq overwritten'
<1> USE DEF CatalogIInv, CatalogInv, CompanyTypeOK
<1>1. ASSUME NEW c \in Companies, NEW read, Outpaced(c, read)
      PROVE  outpaced \subseteq outpaced' /\ outpaced' \subseteq Companies
  BY <1>1 DEF Outpaced
<1>2. CASE FlushCompany(h)
  <2>1. edit[h].company \in Companies
    BY <1>2, FlushMoves
  <2> QED BY <1>1, <1>2, <2>1 DEF FlushCompany
<1>3. CASE FlushRequest(h)
  <2>1. PICK i \in Ids : Folds(h, i)
    BY <1>3, FlushRequestFolds
  <2>2. requests[i].payload.company \in Companies
    BY <2>1, RowFields DEF Folds
  <2> QED BY <2>1, <2>2 DEF Folds
<1>4. CASE CommitSubmit(h)
  <2>1. job[h].op \in {"create", "resubmit"}
    BY <1>4 DEF CommitSubmit, CommitCreate, CommitResubmit
  <2> QED BY <1>1, <1>4, <2>1, SubmitterFields DEF CommitSubmit
<1>5. CASE Screen(h) /\ ~FlushCompany(h) /\ ~FlushRequest(h)
  BY <1>5 DEF Screen, CreateCompany, LoadCompany, UploadLogo, FindOpenRequest, ReloadCompany,
              Submit, AbandonEdit, LoadRequest, ReloadRequest, history
<1>6. CASE \/ Framework(h) \/ FailTransaction(h) \/ ReadCompany(h) \/ CheckSubmittable(h)
           \/ NotifyDecision(h) \/ NotifyOther(h)
           \/ \E i \in Ids : ApproveCompany(h, i) \/ RejectCompany(h, i)
  BY <1>6 DEF Framework, FailTransaction, ReadCompany, CheckSubmittable, NotifyDecision, NotifyOther,
              ApproveCompany, RejectCompany, history
<1> QED BY <1>2, <1>3, <1>4, <1>5, <1>6 DEF Acts

\* A step is of one handler.
LEMMA OthersStay ==
  ASSUME CatalogIInv, NEW h \in Handlers, Acts(h), NEW g \in Handlers \ {h}
  PROVE  pc'[g] = pc[g] /\ job'[g] = job[g] /\ edit'[g] = edit[g] /\ seen'[g] = seen[g]
<1> USE DEF CatalogIInv, CatalogInv, CompanyTypeOK
<1>0. TypeOK
  OBVIOUS
<1>1. ASSUME Rollback(h) \/ Goto(h, "write") \/ Notify(h) \/ CommitSome(h) \/ Start(h)
             \/ TakeAdvisoryLock(h) \/ LockRow(h)
      PROVE  pc'[g] = pc[g] /\ job'[g] = job[g]
  <2>1. CASE Rollback(h)
    BY <1>0, <2>1, RollbackEffect
  <2>2. CASE CommitSome(h) \/ Start(h)
    BY <1>0, <2>2, StartEffect, CommitEffect
  <2>3. CASE Goto(h, "write") \/ Notify(h) \/ TakeAdvisoryLock(h)
    BY <2>3 DEF Goto, Notify, Finish, TakeAdvisoryLock, TypeOK
  <2>4. CASE LockRow(h)
    BY <2>1, <2>4 DEF LockRow, Goto, TypeOK
  <2> QED BY <1>1, <2>1, <2>2, <2>3, <2>4
<1>2. CASE Screen(h)
  <2>1. pc'[g] = pc[g] /\ job'[g] = job[g]
    BY <1>1, <1>2, ScreenIsStart DEF FlushRequest, vars
  <2>2. CASE \E r \in Requesters, c \in Companies :
               \/ \E d \in Details : CreateCompany(h, r, c, d)
               \/ \E d \in Details, k \in Logos \cup {Keep} : LoadCompany(h, r, c, d, k)
               \/ \E k \in Logos : UploadLogo(h, r, c, k)
    BY <2>1, <2>2 DEF CreateCompany, LoadCompany, UploadLogo, SetEdit
  <2>3. CASE FindOpenRequest(h)
    BY <2>1, <2>3 DEF FindOpenRequest, SetEdit, EndEdit
  <2>4. CASE ReloadCompany(h) \/ FlushCompany(h) \/ Submit(h) \/ AbandonEdit(h)
    BY <2>1, <2>4 DEF ReloadCompany, FlushCompany, Submit, AbandonEdit, SetEdit, EndEdit
  <2>5. CASE LoadRequest(h) \/ ReloadRequest(h) \/ FlushRequest(h)
    BY <2>1, <2>5 DEF LoadRequest, ReloadRequest, FlushRequest, SetEdit, EndEdit
  <2> QED BY <1>2, <2>2, <2>3, <2>4, <2>5 DEF Screen
<1>3. CASE Framework(h)
  BY <1>1, <1>3, FrameworkIsFramework
<1>4. CASE CheckSubmittable(h) \/ FailTransaction(h) \/ NotifyDecision(h) \/ NotifyOther(h)
  BY <1>1, <1>4 DEF CheckSubmittable, FailTransaction, NotifyDecision, NotifyOther, CheckDuplicates,
                    Fail, Forget, screens
<1>5. CASE CommitSubmit(h) \/ \E i \in Ids : ApproveCompany(h, i) \/ RejectCompany(h, i)
  <2>1. CommitSome(h)
    BY <1>5, OthersAreFramework
  <2> QED BY <1>1, <1>5, <2>1 DEF ApproveCompany, RejectCompany, CommitSubmit, Forget, screens
<1>6. CASE ReadCompany(h)
  BY <1>6 DEF ReadCompany, vars, screens
<1> QED BY <1>2, <1>3, <1>4, <1>5, <1>6 DEF Acts

\* What a step does to the table of requests.
LEMMA RequestMoves ==
  ASSUME CatalogIInv, NEW h \in Handlers, Acts(h)
  PROVE  \/ UNCHANGED <<requests, overwritten>>
         \/ \E i \in Ids : Folds(h, i)
         \/ /\ pc[h] = "write" /\ UNCHANGED overwritten /\ \E i \in Ids : RowStep(h, i)
            /\ job[h].op \in {"create", "resubmit"} => CommitSubmit(h)
<1>1. /\ TypeOK /\ TypeOK' /\ \A g \in Handlers : RowIsAsChecked(g)
  <2>1. IInvIn(Untouched)'
    BY CatalogKeepsIInv DEF CompanyNext, Acts
  <2> QED BY <2>1 DEF CatalogIInv, IInvIn, ChecksStayValidIn
<1>2. ASSUME CommitSome(h) PROVE pc[h] = "write" /\ \E i \in Ids : RowStep(h, i)
  BY <1>1, <1>2, CommitIsRowStep
<1>3. ASSUME Start(h) PROVE UNCHANGED requests
  BY <1>1, <1>3, StartEffect
<1>4. CASE Screen(h)
  BY <1>3, <1>4, ScreenIsStart, FlushRequestFolds DEF vars
<1>5. CASE Framework(h)
  BY <1>2, <1>3, <1>5, FrameworkIsFramework DEF TakeAdvisoryLock, LockRow, Rollback, db
<1>6. CASE \E i \in Ids : ApproveCompany(h, i) \/ RejectCompany(h, i)
  <2>1. CommitSome(h) /\ UNCHANGED overwritten
    BY <1>6, OthersAreFramework
  <2>2. job[h].op = "decide"
    BY <1>6 DEF ApproveCompany, RejectCompany, CommitDecide
  <2> QED BY <1>2, <2>1, <2>2
<1>7. CASE CommitSubmit(h)
  BY <1>2, <1>7, OthersAreFramework
<1>8. CASE FailTransaction(h) \/ ReadCompany(h) \/ CheckSubmittable(h) \/ NotifyDecision(h) \/ NotifyOther(h)
  BY <1>8, OthersAreFramework DEF Fail, Notify, CheckDuplicates, Rollback, vars, db
<1> QED BY <1>4, <1>5, <1>6, <1>7, <1>8 DEF Acts

\* A request stays, and about the company it was raised for.
LEMMA RequestsStay ==
  ASSUME CatalogIInv, NEW h \in Handlers, Acts(h), NEW i \in Ids, Exists(i)
  PROVE  Exists(i)' /\ requests'[i].payload.company = requests[i].payload.company
<1>1. CASE UNCHANGED requests
  BY <1>1 DEF Exists
<1>2. ASSUME NEW k \in Ids, Folds(h, k)
      PROVE  Exists(i)' /\ requests'[i].payload.company = requests[i].payload.company
  <2>1. CASE i = k
    BY <1>2, <2>1, RoutingData DEF Folds, Exists
  <2>2. CASE i # k
    <3>1. requests' = [requests EXCEPT ![k] = requests'[k]]
      BY <1>2 DEF Folds
    <3> QED BY <2>2, <3>1 DEF Exists, CatalogIInv, IInvIn, TypeOK
  <2> QED BY <2>1, <2>2
<1>3. ASSUME NEW k \in Ids, RowStep(h, k)
      PROVE  Exists(i)' /\ requests'[i].payload.company = requests[i].payload.company
  <2>1. CASE i = k /\ job[h].op = "resubmit"
    <3>1. requests'[i].payload = job[h].payload /\ requests'[i] # Absent /\ i = job[h].id
      BY <1>3, <2>1 DEF RowStep
    <3>2. requests[i].payload.company = job[h].payload.company
      BY <2>1, <3>1 DEF CatalogIInv, SubmitFits, About
    <3> QED BY <3>1, <3>2 DEF Exists
  <2>2. CASE i # k \/ job[h].op # "resubmit"
    BY <1>3, <2>2 DEF RowStep, Exists
  <2> QED BY <2>1, <2>2
<1> QED BY <1>1, <1>2, <1>3, RequestMoves

LEMMA AboutStays ==
  ASSUME CatalogIInv, NEW h \in Handlers, Acts(h), NEW i, NEW c, About(i, c)
  PROVE  About(i, c)'
  BY RequestsStay DEF About

\* A request is opened again only by a save that came too late for its company.
LEMMA OpensOnlyLate ==
  ASSUME CatalogIInv, NEW h \in Handlers, Acts(h), NEW i \in Ids, Exists(i), IsOpen(i)',
         requests[i].payload.company \notin outpaced'
  PROVE  IsOpen(i)
<1>1. CASE UNCHANGED requests
  BY <1>1 DEF IsOpen, Exists
<1>2. ASSUME NEW k \in Ids, Folds(h, k) PROVE IsOpen(i)
  <2>1. CASE i = k
    BY <1>2, <2>1 DEF Folds, IsOpen, Exists
  <2>2. CASE i # k
    <3>1. requests' = [requests EXCEPT ![k] = requests'[k]]
      BY <1>2 DEF Folds
    <3> QED BY <2>2, <3>1 DEF IsOpen, Exists, CatalogIInv, IInvIn, TypeOK
  <2> QED BY <2>1, <2>2
<1>3. ASSUME NEW k \in Ids, RowStep(h, k) PROVE IsOpen(i)
  BY <1>3 DEF RowStep, IsOpen, Exists, Open, Decided
<1> QED BY <1>1, <1>2, <1>3, RequestMoves

-----------------------------------------------------------------------------
(* Requests fit their companies *)

\* Only a decision of a request about it moves the status of a company that nothing
\* comes too late for.
LEMMA StatusMoves ==
  ASSUME CatalogIInv, NEW h \in Handlers, Acts(h), NEW c \in Companies, companies[c] # Absent
  PROVE  \/ companies'[c].status = companies[c].status
         \/ c \in outpaced'
         \/ \E i \in Ids : DecidesOn(h, i, c)
<1>1. CASE UNCHANGED companies
  BY <1>1
<1>2. ASSUME NEW d \in Companies, Moves(h, d)
      PROVE  \/ companies'[c].status = companies[c].status
             \/ c \in outpaced'
             \/ \E i \in Ids : DecidesOn(h, i, c)
  <2>1. CASE c = d
    BY <1>2, <2>1 DEF Moves, Created, Edited
  <2>2. CASE c # d
    <3>1. companies' = [companies EXCEPT ![d] = companies'[d]]
      BY <1>2 DEF Moves
    <3> QED BY <2>2, <3>1 DEF CatalogIInv, CatalogInv, CompanyTypeOK
  <2> QED BY <2>1, <2>2
<1> QED BY <1>1, <1>2, CatalogMoves

\* A proposal that fits as long as request i is open goes on doing so.
LEMMA FitsStays ==
  ASSUME CatalogIInv, NEW h \in Handlers, Acts(h), NEW i \in Ids, NEW p,
         About(i, p.company), FitsWhileOpen(i, p)
  PROVE  FitsWhileOpen(i, p)'
<1> DEFINE c == p.company
<1> SUFFICES ASSUME IsOpen(i)', c \notin outpaced'
             PROVE  (p.kind = "update") <=> companies'[c].status = "approved"
  BY DEF FitsWhileOpen
<1>1. Exists(i) /\ requests[i].payload.company = c
  BY DEF About
<1>2. IsOpen(i) /\ c \notin outpaced
  BY <1>1, OpensOnlyLate, LateStaysKnown
<1>3. (p.kind = "update") <=> companies[c].status = "approved"
  BY <1>2 DEF FitsWhileOpen
<1>4. c \in Companies /\ companies[c] # Absent
  BY <1>1, RowFields
<1>5. ASSUME NEW j \in Ids, DecidesOn(h, j, c) PROVE FALSE
  <2>1. j = i
    BY <1>1, <1>2, <1>5, OneOpenRequest DEF DecidesOn
  <2>2. requests'[i].status \in {"approved", "rejected"}
    BY <1>5, <2>1 DEF DecidesOn
  <2> QED BY <2>2 DEF IsOpen, Open
<1>6. companies'[c].status = companies[c].status
  BY <1>4, <1>5, StatusMoves
<1> QED BY <1>3, <1>6

LEMMA StepKinds ==
  ASSUME CatalogIInv, NEW h \in Handlers, Acts(h)
  PROVE  KindMatchesCompany'
<1> SUFFICES ASSUME NEW i \in Ids, IsOpen(i)', requests'[i].payload.company \notin outpaced'
             PROVE  (requests'[i].payload.kind = "update")
                       <=> companies'[requests'[i].payload.company].status = "approved"
  BY DEF KindMatchesCompany
<1> DEFINE q == requests'[i].payload
<1>1. ASSUME Exists(i), NEW p, p = q, FitsWhileOpen(i, p)
      PROVE  (q.kind = "update") <=> companies'[q.company].status = "approved"
  <2>1. About(i, p.company)
    BY <1>1, RequestsStay DEF About
  <2>2. FitsWhileOpen(i, p)'
    BY <1>1, <2>1, FitsStays
  <2> QED BY <1>1, <2>2 DEF FitsWhileOpen
<1>2. ASSUME Exists(i) PROVE FitsWhileOpen(i, requests[i].payload)
  BY <1>2 DEF FitsWhileOpen, CatalogIInv, CatalogInv, KindMatchesCompany
<1>3. ASSUME Exists(i), q = requests[i].payload
      PROVE  (q.kind = "update") <=> companies'[q.company].status = "approved"
  BY <1>1, <1>2, <1>3
<1>4. CASE UNCHANGED requests
  BY <1>3, <1>4 DEF IsOpen, Exists
<1>5. ASSUME NEW k \in Ids, Folds(h, k)
      PROVE  (q.kind = "update") <=> companies'[q.company].status = "approved"
  <2>1. CASE i = k
    <3>1. Exists(i) /\ q \in {requests[i].payload, edit[h].entity.payload}
      BY <1>5, <2>1 DEF Folds
    <3>2. FitsWhileOpen(i, edit[h].entity.payload)
      BY <1>5, <2>1 DEF Folds, CatalogIInv, EditFits, Step
    <3> QED BY <1>1, <1>3, <3>1, <3>2
  <2>2. CASE i # k
    <3>1. requests' = [requests EXCEPT ![k] = requests'[k]]
      BY <1>5 DEF Folds
    <3>2. requests'[i] = requests[i]
      BY <2>2, <3>1 DEF CatalogIInv, IInvIn, TypeOK
    <3> QED BY <1>3, <3>2 DEF IsOpen, Exists
  <2> QED BY <2>1, <2>2
<1>6. ASSUME pc[h] = "write", NEW k \in Ids, RowStep(h, k),
             job[h].op \in {"create", "resubmit"} => CommitSubmit(h)
      PROVE  (q.kind = "update") <=> companies'[q.company].status = "approved"
  <2>1. CASE i = k /\ job[h].op \in {"create", "resubmit"}
    <3>1. q = job[h].payload
      BY <1>6, <2>1 DEF RowStep
    <3>2. KindAsRead(h, seen[h])
      BY <1>6, <2>1 DEF CatalogIInv, SubmitFits
    <3>3. UNCHANGED companies /\ Outpaced(q.company, seen[h])
      BY <1>6, <2>1, <3>1 DEF CommitSubmit, screens
    <3>4. q.company \in Companies
      BY <2>1, <3>1, SubmitterFields
    <3>5. companies[q.company].status = seen[h]
      BY <3>3, <3>4 DEF Outpaced
    <3> QED BY <3>1, <3>2, <3>3, <3>5 DEF KindAsRead
  <2>2. CASE i # k \/ job[h].op \notin {"create", "resubmit"}
    BY <1>3, <1>6, <2>2 DEF RowStep, IsOpen, Exists
  <2> QED BY <2>1, <2>2
<1> QED BY <1>4, <1>5, <1>6, RequestMoves

LEMMA StepLate ==
  ASSUME CatalogIInv, NEW h \in Handlers, Acts(h)
  PROVE  LateAreKnown'
<1> SUFFICES ASSUME NEW i \in overwritten'
             PROVE  Exists(i)' /\ requests'[i].payload.company \in outpaced'
  BY DEF LateAreKnown
<1>1. CASE i \in overwritten
  <2>1. i \in Ids /\ Exists(i) /\ requests[i].payload.company \in outpaced
    BY <1>1 DEF CatalogIInv, CatalogInv, CompanyTypeOK, LateAreKnown
  <2> QED BY <2>1, RequestsStay, LateStaysKnown
<1>2. CASE i \notin overwritten
  <2>1. PICK k \in Ids : Folds(h, k)
    BY <1>2, RequestMoves
  <2>2. i = k /\ Exists(i) /\ requests[i].payload.company \in outpaced'
    BY <1>2, <2>1 DEF Folds
  <2> QED BY <2>1, <2>2, RequestsStay
<1> QED BY <1>1, <1>2

\* Only a screen that holds a company puts a handler on its way to a new request, and
\* a request it resubmits is the one it has found.
LEMMA JobMoves ==
  ASSUME CatalogIInv, NEW h \in Handlers, Acts(h)
  PROVE  \/ job'[h] = job[h]
         \/ job'[h].op \notin {"create", "resubmit"}
         \/ /\ edit[h] # NoEdit /\ job'[h].payload = PayloadFor(edit[h])
            /\ job'[h].op = "resubmit" => job'[h].id = edit[h].open /\ edit[h].open # Absent
<1>0. TypeOK /\ job \in [Handlers -> Jobs]
  BY DEF CatalogIInv, IInvIn, TypeOK
<1>1. ASSUME Rollback(h) \/ Notify(h) PROVE job'[h].op \notin {"create", "resubmit"}
  BY <1>0, <1>1 DEF Rollback, Notify, Finish, NoJob
<1>2. ASSUME CommitSome(h) PROVE job'[h].op \notin {"create", "resubmit"}
  BY <1>0, <1>2, CommitEffect DEF NoJob
<1>3. CASE Screen(h)
  <2>1. CASE Submit(h)
    <3> DEFINE p == PayloadFor(edit[h])
    <3>1. edit[h] # NoEdit
      BY <2>1 DEF Submit, Step, NoEdit
    <3>2. CASE edit[h].open = Absent
      <4>1. StartCreate(h, edit[h].who, p)
        BY <2>1, <3>2 DEF Submit
      <4>2. job'[h].op = "create" /\ job'[h].payload = p
        BY <1>0, <4>1 DEF StartCreate, Begin
      <4> QED BY <3>1, <4>2
    <3>3. CASE edit[h].open # Absent
      <4>1. StartResubmit(h, edit[h].who, edit[h].open, p)
        BY <2>1, <3>3 DEF Submit
      <4>2. job'[h].payload = p /\ job'[h].id = edit[h].open
        BY <1>0, <4>1 DEF StartResubmit, Begin
      <4> QED BY <3>1, <3>3, <4>2
    <3> QED BY <3>2, <3>3
  <2>2. CASE ~Submit(h)
    BY <1>3, <2>2 DEF Screen, CreateCompany, LoadCompany, UploadLogo, FindOpenRequest, ReloadCompany,
                FlushCompany, AbandonEdit, LoadRequest, ReloadRequest, FlushRequest, vars
  <2> QED BY <2>1, <2>2
<1>4. CASE Framework(h)
  BY <1>1, <1>2, <1>4, FrameworkIsFramework DEF TakeAdvisoryLock, LockRow, Goto
<1>5. CASE CommitSubmit(h) \/ \E i \in Ids : ApproveCompany(h, i) \/ RejectCompany(h, i)
  BY <1>2, <1>5, OthersAreFramework
<1>6. CASE FailTransaction(h) \/ ReadCompany(h) \/ CheckSubmittable(h) \/ NotifyDecision(h) \/ NotifyOther(h)
  BY <1>1, <1>6, OthersAreFramework DEF Fail, CheckDuplicates, Goto, vars
<1> QED BY <1>3, <1>4, <1>5, <1>6 DEF Acts

LEMMA StepExist ==
  ASSUME CatalogIInv, NEW h \in Handlers, Acts(h)
  PROVE  CompaniesExist'
<1>1. ASSUME NEW i \in Ids, Exists(i)' PROVE companies'[requests'[i].payload.company] # Absent
  <2>1. CASE Exists(i)
    BY <2>1, RequestsStay, RowFields, CompaniesStay
  <2>2. CASE ~Exists(i)
    <3>1. PICK k \in Ids : RowStep(h, k)
      <4>1. ASSUME NEW k \in Ids, Folds(h, k) PROVE FALSE
        <5>1. requests' = [requests EXCEPT ![k] = requests'[k]] /\ Exists(k)
          BY <4>1 DEF Folds
        <5> QED BY <1>1, <2>2, <5>1 DEF Exists, CatalogIInv, IInvIn, TypeOK
      <4> QED BY <1>1, <2>2, <4>1, RequestMoves DEF Exists
    <3>2. requests'[i].payload = job[h].payload /\ job[h].op \in {"create", "resubmit"}
      BY <1>1, <2>2, <3>1 DEF RowStep, Exists
    <3> QED BY <3>2, SubmitterFields, CompaniesStay
  <2> QED BY <2>1, <2>2
<1>2. ASSUME NEW g \in Handlers, job'[g].op \in {"create", "resubmit"}
      PROVE  companies'[job'[g].payload.company] # Absent
  <2>1. CASE job'[g] = job[g]
    BY <1>2, <2>1, SubmitterFields, CompaniesStay
  <2>2. CASE job'[g] # job[g]
    <3>1. g = h /\ edit[h] # NoEdit /\ job'[h].payload = PayloadFor(edit[h])
      BY <1>2, <2>2, OthersStay, JobMoves
    <3> QED BY <3>1, CompanyFields, PayloadForTypes, CompaniesStay
  <2> QED BY <2>1, <2>2
<1> QED BY <1>1, <1>2 DEF CompaniesExist

-----------------------------------------------------------------------------
(* What a submitter has read *)

\* The handler that moves: its screen is open only while it is in no transaction.
LEMMA ScreensAreIdle ==
  ASSUME CatalogIInv, NEW h \in Handlers, Screen(h)
  PROVE  pc[h] = "idle" /\ seen[h] = "unread" /\ UNCHANGED seen
<1>1. edit[h] # NoEdit => pc[h] = "idle"
  BY DEF CatalogIInv, EditFits
<1>2. pc[h] = "idle"
  <2>1. CASE \E r \in Requesters, c \in Companies :
               \/ \E d \in Details : CreateCompany(h, r, c, d)
               \/ \E d \in Details, k \in Logos \cup {Keep} : LoadCompany(h, r, c, d, k)
               \/ \E k \in Logos : UploadLogo(h, r, c, k)
    BY <2>1 DEF CreateCompany, LoadCompany, UploadLogo, Free
  <2>2. CASE AbandonEdit(h)
    BY <1>1, <2>2 DEF AbandonEdit
  <2>3. ASSUME NEW step, step # "none", Step(h, step) PROVE pc[h] = "idle"
    BY <1>1, <2>3 DEF Step, NoEdit
  <2>4. CASE \/ FindOpenRequest(h) \/ ReloadCompany(h) \/ FlushCompany(h) \/ Submit(h)
             \/ LoadRequest(h) \/ ReloadRequest(h) \/ FlushRequest(h)
    BY <2>3, <2>4 DEF FindOpenRequest, ReloadCompany, FlushCompany, Submit, LoadRequest, ReloadRequest, FlushRequest
  <2> QED BY <2>1, <2>2, <2>4 DEF Screen
<1>3. UNCHANGED seen
  BY DEF Screen, CreateCompany, LoadCompany, UploadLogo, FindOpenRequest, ReloadCompany,
              FlushCompany, Submit, AbandonEdit, LoadRequest, ReloadRequest, FlushRequest
<1> QED BY <1>2, <1>3 DEF CatalogIInv, SubmitFits

\* A submitter reaches its write by the check of the kind and of duplicates.
LEMMA WritesAreChecked ==
  ASSUME CatalogIInv, NEW h \in Handlers, Acts(h), pc'[h] = "write", job'[h].op \in {"create", "resubmit"}
  PROVE  CheckSubmittable(h) /\ KindFits(h) /\ job' = job /\ seen[h] # "unread" /\ UNCHANGED seen
<1>0. TypeOK /\ pc \in [Handlers -> {"idle", "lock", "row", "check", "write", "notify"}]
  BY DEF CatalogIInv, IInvIn, TypeOK
<1>1. ASSUME Rollback(h) \/ Notify(h) \/ CommitSome(h) \/ Start(h) \/ TakeAdvisoryLock(h) PROVE FALSE
  <2>1. CASE Rollback(h) \/ Notify(h)
    BY <1>0, <2>1 DEF Rollback, Notify, Finish
  <2>2. CASE CommitSome(h) \/ Start(h)
    BY <1>0, <2>2, StartEffect, CommitEffect
  <2>3. CASE TakeAdvisoryLock(h)
    BY <1>0, <2>3 DEF TakeAdvisoryLock, Goto
  <2> QED BY <1>1, <2>1, <2>2, <2>3
<1>2. ASSUME LockRow(h) PROVE FALSE
  <2>1. pc[h] = "row" /\ Goto(h, IF job[h].op = "resubmit" THEN "check" ELSE "write")
    BY <1>1, <1>2 DEF LockRow
  <2>2. job[h].op \in {"resubmit", "cancel", "decide", "sendBack"}
    BY <2>1 DEF CatalogIInv, IInvIn, OpMatchesPc
  <2> QED BY <1>0, <2>1, <2>2 DEF Goto
<1>3. ASSUME Screen(h) PROVE FALSE
  BY <1>0, <1>1, <1>3, ScreensAreIdle, ScreenIsStart DEF FlushRequest, vars
<1>4. ASSUME Framework(h) PROVE FALSE
  BY <1>1, <1>2, <1>4, FrameworkIsFramework
<1>5. ASSUME CommitSubmit(h) \/ \E i \in Ids : ApproveCompany(h, i) \/ RejectCompany(h, i) PROVE FALSE
  BY <1>1, <1>5, OthersAreFramework
<1>6. ASSUME FailTransaction(h) \/ NotifyDecision(h) \/ NotifyOther(h) PROVE FALSE
  BY <1>1, <1>6, OthersAreFramework DEF Fail
<1>7. ASSUME ReadCompany(h) PROVE FALSE
  BY <1>7 DEF ReadCompany, vars
<1>8. CASE CheckSubmittable(h)
  BY <1>1, <1>8 DEF CheckSubmittable, CheckDuplicates, Goto, screens
<1> QED BY <1>3, <1>4, <1>5, <1>6, <1>7, <1>8 DEF Acts

\* What a handler has read of a company is from its own transaction, past the locks.
LEMMA ReadsAreOfSubmitters ==
  ASSUME CatalogIInv, NEW h \in Handlers, Acts(h), seen'[h] # "unread"
  PROVE  pc'[h] \in {"check", "write"} /\ job'[h].op \in {"create", "resubmit"}
<1>0. /\ seen \in [Handlers -> {"unread", "pending", "approved", "rejected"}]
      /\ seen[h] # "unread" => pc[h] \in {"check", "write"} /\ job[h].op \in {"create", "resubmit"}
  BY DEF CatalogIInv, CatalogInv, CompanyTypeOK, SubmitFits
<1>1. CASE ReadCompany(h)
  <2>1. pc'[h] = "check" /\ job'[h] = job[h] /\ pc[h] = "check"
    BY <1>1 DEF ReadCompany, vars
  <2> QED BY <2>1 DEF CatalogIInv, IInvIn, OpMatchesPc
<1>2. ASSUME Screen(h) PROVE FALSE
  BY <1>2, ScreensAreIdle
<1>3. ASSUME Framework(h) PROVE FALSE
  <2>1. pc[h] \in {"check", "write"} /\ job[h].op \in {"create", "resubmit"}
    BY <1>0, <1>3, FrameworkIsFramework
  <2>2. pc[h] \notin {"idle", "lock", "row"} /\ job[h].op \notin {"cancel", "sendBack"}
    BY <2>1
  <2> QED BY <1>3, <2>2, FrameworkIsFramework DEF Free, TakeAdvisoryLock, LockRow
<1>4. ASSUME \E i \in Ids : ApproveCompany(h, i) \/ RejectCompany(h, i) PROVE FALSE
  <2>1. UNCHANGED seen /\ job[h].op = "decide"
    BY <1>4 DEF ApproveCompany, RejectCompany, CommitDecide
  <2> QED BY <1>0, <2>1
<1>5. ASSUME FailTransaction(h) \/ CommitSubmit(h) PROVE FALSE
  BY <1>0, <1>5 DEF FailTransaction, CommitSubmit, Forget
<1>6. ASSUME NotifyDecision(h) \/ NotifyOther(h) PROVE FALSE
  BY <1>0, <1>6 DEF NotifyDecision, NotifyOther, Notify
<1>7. CASE CheckSubmittable(h)
  <2>1. pc'[h] = "write"
    BY <1>0, <1>7 DEF CheckSubmittable, Forget
  <2>2. ~Rollback(h)
    BY <2>1 DEF Rollback, Finish, CatalogIInv, IInvIn, TypeOK
  <2>3. pc[h] = "check" /\ UNCHANGED job
    BY <1>7, <2>2 DEF CheckSubmittable, CheckDuplicates, Goto
  <2> QED BY <2>1, <2>3 DEF CatalogIInv, IInvIn, OpMatchesPc
<1> QED BY <1>1, <1>2, <1>3, <1>4, <1>5, <1>6, <1>7 DEF Acts

LEMMA StepSubmits ==
  ASSUME CatalogIInv, NEW h \in Handlers, Acts(h), NEW g \in Handlers
  PROVE  SubmitFits(g)'
<1>1. ASSUME job'[g] = job[g], job[g].op = "resubmit"
      PROVE  About(job[g].id, job[g].payload.company)'
  <2>1. About(job[g].id, job[g].payload.company)
    BY <1>1 DEF CatalogIInv, SubmitFits
  <2> QED BY <1>1, <2>1, RequestsStay DEF About
<1>2. CASE g # h
  <2>1. pc'[g] = pc[g] /\ job'[g] = job[g] /\ seen'[g] = seen[g]
    BY <1>2, OthersStay
  <2>2. SubmitFits(g)
    BY DEF CatalogIInv
  <2> QED BY <1>1, <2>1, <2>2 DEF SubmitFits, KindAsRead, About
<1>3. CASE g = h
  <2>1. seen'[h] # "unread" => pc'[h] \in {"check", "write"} /\ job'[h].op \in {"create", "resubmit"}
    BY ReadsAreOfSubmitters
  <2>2. ASSUME pc'[h] = "write", job'[h].op \in {"create", "resubmit"}
        PROVE  seen'[h] # "unread" /\ KindAsRead(h, seen[h])'
    <3>1. KindFits(h) /\ job' = job /\ seen[h] # "unread" /\ UNCHANGED seen
      BY <2>2, WritesAreChecked
    <3> QED BY <3>1 DEF KindFits, KindAsRead
  <2>3. ASSUME job'[h].op = "resubmit" PROVE About(job[h].id, job[h].payload.company)'
    <3>1. CASE job'[h] = job[h]
      BY <1>1, <1>3, <2>3, <3>1 DEF About
    <3>2. CASE job'[h] # job[h]
      <4>1. /\ edit[h] # NoEdit /\ job'[h].payload = PayloadFor(edit[h])
            /\ job'[h].id = edit[h].open /\ edit[h].open # Absent
        BY <2>3, <3>2, JobMoves
      <4>2. About(edit[h].open, edit[h].company)
        BY <4>1 DEF CatalogIInv, EditFits
      <4>3. job'[h].payload.company = edit[h].company
        BY <4>1, PayloadForTypes
      <4> QED BY <4>1, <4>2, <4>3, RequestsStay DEF About
    <3> QED BY <3>1, <3>2
  <2> QED BY <1>3, <2>1, <2>2, <2>3 DEF SubmitFits, KindAsRead
<1> QED BY <1>2, <1>3

-----------------------------------------------------------------------------
(* What a screen holds *)

\* Whoever else moves, what a screen holds stays fit.
LEMMA OthersEdits ==
  ASSUME CatalogIInv, NEW h \in Handlers, Acts(h), NEW g \in Handlers \ {h}
  PROVE  EditFits(g)'
<1> DEFINE e == edit[g]
<1>1. pc'[g] = pc[g] /\ edit'[g] = e
  BY OthersStay
<1>2. CASE e = NoEdit
  BY <1>1, <1>2 DEF EditFits
<1>3. CASE e # NoEdit
  <2>1. EditFits(g) /\ e \in Edit /\ e.company \in Companies /\ companies[e.company] # Absent
    BY <1>3, CompanyFields
  <2>2. companies'[e.company] # Absent
    BY <2>1, CompaniesStay
  <2>3. PICK i, c, p : i = e.open /\ c = e.company /\ p = e.entity.payload
    OBVIOUS
  <2>4. About(i, c) => About(i, c)'
    BY AboutStays
  <2>5. e.step \in {"syncReload", "syncFlush"} =>
          i \in Ids /\ About(i, c) /\ p.company = c /\ FitsWhileOpen(i, p)
    BY <1>3, <2>1, <2>3 DEF EditFits, About
  <2>6. e.step \in {"syncReload", "syncFlush"} => FitsWhileOpen(i, p)'
    BY <2>5, FitsStays
  <2>7. /\ e.step \in {"syncReload", "syncFlush"} =>
             (IsOpen(i)' /\ p.company \notin outpaced' =>
                (p.kind = "update" <=> companies'[p.company].status = "approved"))
        /\ About(i, c) => i \in Ids /\ Exists(i)' /\ requests'[i].payload.company = c
    BY <2>4, <2>6 DEF About, FitsWhileOpen
  <2> QED BY <1>1, <2>1, <2>2, <2>3, <2>7 DEF EditFits, About, FitsWhileOpen, IsOpen, Exists
<1> QED BY <1>2, <1>3

\* The handlers' screens when h has gone on to the edit e.
LEMMA EditSet ==
  ASSUME CatalogIInv, NEW h \in Handlers, NEW e, e \in Edit \cup {NoEdit}, SetEdit(h, e)
  PROVE  edit'[h] = e /\ edit' \in [Handlers -> Edit \cup {NoEdit}]
  BY DEF SetEdit, CatalogIInv, CatalogInv, CompanyTypeOK

\* Ending an edit leaves nothing to hold.
LEMMA EditEnds ==
  ASSUME CatalogIInv, NEW h \in Handlers, EndEdit(h)
  PROVE  EditFits(h)' /\ edit' \in [Handlers -> Edit \cup {NoEdit}]
  BY EditSet DEF EndEdit, EditFits

\* What has to be shown of the edit a screen goes on to, short of the fold.
LEMMA GoesOnFits ==
  ASSUME NEW h \in Handlers, NEW f, edit'[h] = f, pc'[h] = "idle", companies'[f.company] # Absent,
         f.op = "logo" => f.logo \in Logos,
         f.step = "sync" => f.op = "logo",
         f.step = "open" => f.entity \in Company,
         f.step \in {"reload", "flush"} => f.entity \in Company /\ f.entity.status # "approved",
         f.open # Absent => /\ f.open \in Ids /\ requests'[f.open] # Absent
                            /\ requests'[f.open].payload.company = f.company,
         f.step \notin {"syncReload", "syncFlush"}
  PROVE  EditFits(h)'
  BY DEF EditFits, Exists, About

LEMMA CreateFits ==
  ASSUME CatalogIInv, NEW h \in Handlers, NEW r \in Requesters, NEW c \in Companies, NEW d \in Details,
         CreateCompany(h, r, c, d)
  PROVE  EditFits(h)' /\ edit' \in [Handlers -> Edit \cup {NoEdit}]
<1> DEFINE row == [status |-> "pending", details |-> d, logo |-> NoLogo]
           e == [op |-> "update", who |-> r, company |-> c, details |-> d, logo |-> Keep,
                 previous |-> NoLogo, entity |-> row, dirty |-> {}, open |-> Absent, step |-> "submit"]
<1>1. row \in Company
  BY DEF Company
<1>2. e \in Edit
  BY <1>1 DEF Edit
<1>3. edit'[h] = e /\ edit' \in [Handlers -> Edit \cup {NoEdit}]
  BY <1>2, EditSet DEF CreateCompany
<1>4. pc'[h] = "idle"
  BY DEF CreateCompany, Free, vars
<1>5. companies'[c] = row
  BY DEF CreateCompany, CatalogIInv, CatalogInv, CompanyTypeOK
<1>6. companies'[c] # Absent
  BY <1>1, <1>5, CompanyRows
<1> QED BY <1>3, <1>4, <1>6 DEF EditFits

LEMMA LoadFits ==
  ASSUME CatalogIInv, NEW h \in Handlers, NEW r \in Requesters, NEW c \in Companies, NEW d \in Details,
         NEW k \in Logos \cup {Keep}, LoadCompany(h, r, c, d, k)
  PROVE  EditFits(h)' /\ edit' \in [Handlers -> Edit \cup {NoEdit}]
<1> DEFINE e == [op |-> "update", who |-> r, company |-> c, details |-> d, logo |-> k,
                 previous |-> NoLogo, entity |-> companies[c], dirty |-> {}, open |-> Absent, step |-> "open"]
<1>1. companies[c] \in Company /\ companies[c] # Absent
  BY DEF LoadCompany, CatalogIInv, CatalogInv, CompanyTypeOK
<1>2. e \in Edit
  BY <1>1 DEF Edit
<1>3. edit'[h] = e /\ edit' \in [Handlers -> Edit \cup {NoEdit}]
  BY <1>2, EditSet DEF LoadCompany
<1>4. pc'[h] = "idle" /\ companies' = companies
  BY DEF LoadCompany, Free, vars
<1> QED BY <1>1, <1>3, <1>4 DEF EditFits

LEMMA FindFits ==
  ASSUME CatalogIInv, NEW h \in Handlers, FindOpenRequest(h)
  PROVE  EditFits(h)' /\ edit' \in [Handlers -> Edit \cup {NoEdit}]
<1> DEFINE e == edit[h]
           c == e.company
<1>1. e.step = "open" /\ e # NoEdit
  BY DEF FindOpenRequest, Step, NoEdit
<1>2. /\ e \in Edit /\ EditFits(h) /\ pc[h] = "idle" /\ c \in Companies
      /\ companies[c] \in Company /\ companies[c] # Absent
  BY <1>1, CompanyFields
<1>3. e.entity \in Company /\ (e.op = "logo" => e.logo \in Logos)
  BY <1>1, <1>2 DEF EditFits
<1>4. UNCHANGED <<companies, pc, requests>>
  BY DEF FindOpenRequest, vars
<1>5. PICK i \in Ids \cup {Absent} :
        /\ i # Absent => i \in OpenFor(c)
        /\ IF i # Absent /\ requests[i].status = "pending" THEN EndEdit(h)
           ELSE IF e.entity.status = "approved" THEN SetEdit(h, [e EXCEPT !.step = "submit", !.open = i])
           ELSE SetEdit(h, [e EXCEPT !.step = "reload", !.open = i, !.entity = Filled(e)])
  BY DEF FindOpenRequest, OpenFor
<1>6. i # Absent => i \in Ids /\ requests'[i] # Absent /\ requests'[i].payload.company = c
  BY <1>4, <1>5 DEF OpenFor, IsOpen, Exists
<1>7. CASE EndEdit(h)
  BY <1>7, EditEnds
<1>8. CASE SetEdit(h, [e EXCEPT !.step = "submit", !.open = i])
  <2> DEFINE f == [e EXCEPT !.step = "submit", !.open = i]
  <2>1. /\ f \in Edit /\ f.op = e.op /\ f.company = c /\ f.step = "submit" /\ f.logo = e.logo
        /\ f.open = i
    BY <1>2 DEF Edit
  <2>2. edit'[h] = f /\ edit' \in [Handlers -> Edit \cup {NoEdit}]
    BY <1>8, <2>1, EditSet
  <2>3. companies'[f.company] # Absent /\ pc'[h] = "idle"
    BY <1>2, <1>4, <2>1
  <2> HIDE DEF f
  <2>4. EditFits(h)'
    BY <1>3, <1>6, <2>1, <2>2, <2>3, GoesOnFits
  <2> QED BY <2>2, <2>4
<1>9. CASE /\ e.entity.status # "approved"
           /\ SetEdit(h, [e EXCEPT !.step = "reload", !.open = i, !.entity = Filled(e)])
  <2> DEFINE f == [e EXCEPT !.step = "reload", !.open = i, !.entity = Filled(e)]
  <2>1. Filled(e) \in Company /\ Filled(e).status = e.entity.status
    BY <1>2, <1>3, EditFields DEF Company, Filled
  <2>2. /\ f \in Edit /\ f.op = e.op /\ f.company = c /\ f.step = "reload" /\ f.entity = Filled(e)
        /\ f.logo = e.logo /\ f.open = i
    BY <1>2, <2>1 DEF Edit
  <2>3. edit'[h] = f /\ edit' \in [Handlers -> Edit \cup {NoEdit}]
    BY <1>9, <2>2, EditSet
  <2>4. companies'[f.company] # Absent /\ pc'[h] = "idle"
    BY <1>2, <1>4, <2>2
  <2> HIDE DEF f
  <2>5. EditFits(h)'
    BY <1>3, <1>6, <1>9, <2>1, <2>2, <2>3, <2>4, GoesOnFits
  <2> QED BY <2>3, <2>5
<1> QED BY <1>5, <1>7, <1>8, <1>9

\* An edit that has found a request knows one about its company.
LEMMA OpenIsAbout ==
  ASSUME CatalogIInv, NEW h \in Handlers, edit[h] # NoEdit, edit[h].open # Absent, UNCHANGED requests
  PROVE  /\ edit[h].open \in Ids /\ requests'[edit[h].open] # Absent
         /\ requests'[edit[h].open].payload.company = edit[h].company
  BY DEF CatalogIInv, EditFits, About, Exists

LEMMA ReloadFits ==
  ASSUME CatalogIInv, NEW h \in Handlers, ReloadCompany(h)
  PROVE  EditFits(h)' /\ edit' \in [Handlers -> Edit \cup {NoEdit}]
<1> DEFINE e == edit[h]
           c == e.company
           dirty == Dirty(e.entity, companies[c])
           f == [e EXCEPT !.step = "flush", !.dirty = dirty]
<1>1. e.step = "reload" /\ e # NoEdit
  BY DEF ReloadCompany, Step, NoEdit
<1>2. /\ e \in Edit /\ EditFits(h) /\ pc[h] = "idle" /\ c \in Companies
      /\ companies[c] \in Company /\ companies[c] # Absent
  BY <1>1, CompanyFields
<1>3. e.entity \in Company /\ e.entity.status # "approved" /\ (e.op = "logo" => e.logo \in Logos)
  BY <1>1, <1>2 DEF EditFits
<1>4. dirty \subseteq Columns
  <2>1. DOMAIN companies[c] = {"status", "details", "logo"}
    BY <1>2 DEF Company
  <2> QED BY <2>1 DEF Dirty, Columns
<1> HIDE DEF dirty
<1>5. /\ f \in Edit /\ f.op = e.op /\ f.company = c /\ f.step = "flush" /\ f.entity = e.entity
      /\ f.logo = e.logo /\ f.open = e.open
  BY <1>2, <1>4 DEF Edit
<1>6. edit'[h] = f /\ edit' \in [Handlers -> Edit \cup {NoEdit}]
  BY <1>5, EditSet DEF ReloadCompany, dirty
<1>7. UNCHANGED <<companies, pc, requests>>
  BY DEF ReloadCompany, vars
<1>8. companies'[f.company] # Absent /\ pc'[h] = "idle"
  BY <1>2, <1>5, <1>7
<1>9. f.open # Absent => /\ f.open \in Ids /\ requests'[f.open] # Absent
                         /\ requests'[f.open].payload.company = f.company
  BY <1>1, <1>5, <1>7, OpenIsAbout
<1> HIDE DEF f, e
<1>10. EditFits(h)'
  BY <1>3, <1>5, <1>6, <1>8, <1>9, GoesOnFits
<1> QED BY <1>6, <1>10

LEMMA FlushFits ==
  ASSUME CatalogIInv, NEW h \in Handlers, FlushCompany(h)
  PROVE  EditFits(h)' /\ edit' \in [Handlers -> Edit \cup {NoEdit}]
<1> DEFINE e == edit[h]
           c == e.company
           step == IF e.op = "update" THEN "submit" ELSE "sync"
           f == [e EXCEPT !.step = step, !.dirty = {}]
<1>1. e.step = "flush" /\ e # NoEdit
  BY DEF FlushCompany, Step, NoEdit
<1>2. e \in Edit /\ EditFits(h) /\ pc[h] = "idle" /\ c \in Companies /\ companies[c] # Absent
  BY <1>1, CompanyFields
<1>3. /\ f \in Edit /\ f.op = e.op /\ f.company = c /\ f.step = step /\ f.logo = e.logo
      /\ f.open = e.open
  BY <1>2 DEF Edit
<1>4. edit'[h] = f /\ edit' \in [Handlers -> Edit \cup {NoEdit}]
  BY <1>3, EditSet DEF FlushCompany
<1>5. companies'[c] # Absent
  BY <1>2, CompaniesStay DEF Acts, Screen
<1>6. UNCHANGED <<pc, requests>>
  BY DEF FlushCompany, vars
<1>7. /\ f.op = "logo" => f.logo \in Logos
      /\ f.step = "sync" => f.op = "logo"
      /\ f.step \in {"submit", "sync"}
  BY <1>2, <1>3, EditFields DEF EditFits
<1>8. companies'[f.company] # Absent /\ pc'[h] = "idle"
  BY <1>2, <1>3, <1>5, <1>6
<1>9. f.open # Absent => /\ f.open \in Ids /\ requests'[f.open] # Absent
                         /\ requests'[f.open].payload.company = f.company
  BY <1>1, <1>3, <1>6, OpenIsAbout
<1> HIDE DEF f, e
<1>10. EditFits(h)'
  BY <1>4, <1>7, <1>8, <1>9, GoesOnFits
<1> QED BY <1>4, <1>10

LEMMA UploadFits ==
  ASSUME CatalogIInv, NEW h \in Handlers, NEW r \in Requesters, NEW c \in Companies, NEW k \in Logos,
         UploadLogo(h, r, c, k)
  PROVE  EditFits(h)' /\ edit' \in [Handlers -> Edit \cup {NoEdit}]
<1> DEFINE entity == [companies[c] EXCEPT !.logo = k]
           e == [op |-> "logo", who |-> r, company |-> c, details |-> companies[c].details,
                 logo |-> k, previous |-> companies[c].logo, entity |-> entity, dirty |-> {},
                 open |-> Absent, step |-> "reload"]
<1>1. companies[c] \in Company /\ companies[c] # Absent
  BY DEF UploadLogo, CatalogIInv, CatalogInv, CompanyTypeOK
<1>2. entity \in Company /\ entity.status = companies[c].status
  BY <1>1 DEF Company
<1>3. /\ companies[c].details \in Details /\ companies[c].logo \in Logos \cup {NoLogo}
  BY <1>1 DEF Company
<1>4. pc'[h] = "idle" /\ companies' = companies /\ Step(h, "none")
  BY DEF UploadLogo, Free, vars
<1>5. CASE companies[c].status = "approved"
  <2>1. edit' = edit
    BY <1>5 DEF UploadLogo
  <2>2. edit[h] = NoEdit
    BY <1>4, EditFields DEF Step, CatalogIInv, CatalogInv, CompanyTypeOK
  <2> QED BY <2>1, <2>2 DEF EditFits, CatalogIInv, CatalogInv, CompanyTypeOK
<1>6. CASE companies[c].status # "approved"
  <2>1. SetEdit(h, e)
    BY <1>6 DEF UploadLogo
  <2> HIDE DEF entity
  <2>2. e \in Edit
    BY <1>2, <1>3 DEF Edit
  <2>3. edit'[h] = e /\ edit' \in [Handlers -> Edit \cup {NoEdit}]
    BY <2>1, <2>2, EditSet
  <2> QED BY <1>1, <1>2, <1>4, <1>6, <2>3 DEF EditFits
<1> QED BY <1>5, <1>6

LEMMA LoadRequestFits ==
  ASSUME CatalogIInv, NEW h \in Handlers, LoadRequest(h)
  PROVE  EditFits(h)' /\ edit' \in [Handlers -> Edit \cup {NoEdit}]
<1> DEFINE e == edit[h]
<1>1. e.step = "sync" /\ e # NoEdit
  <2>1. Step(h, "sync")
    BY DEF LoadRequest
  <2> QED BY <2>1 DEF Step, NoEdit
<1>2. /\ e \in Edit /\ EditFits(h) /\ pc[h] = "idle" /\ e.company \in Companies
      /\ companies[e.company] # Absent
  BY <1>1, CompanyFields
<1>3. e.op = "logo" /\ e.logo \in Logos
  BY <1>1, <1>2 DEF EditFits
<1>4. UNCHANGED <<companies, pc, requests, outpaced>>
  BY DEF LoadRequest, vars, history
<1>5. CASE EndEdit(h)
  BY <1>5, EditEnds
<1>6. ASSUME NEW i \in OpenFor(e.company),
             SetEdit(h, [e EXCEPT !.step = "syncReload", !.open = i,
                                  !.entity = [requests[i] EXCEPT !.payload.logo = e.logo]])
      PROVE  EditFits(h)' /\ edit' \in [Handlers -> Edit \cup {NoEdit}]
  <2> DEFINE p == [requests[i].payload EXCEPT !.logo = e.logo]
             entity == [requests[i] EXCEPT !.payload.logo = e.logo]
             f == [e EXCEPT !.step = "syncReload", !.open = i, !.entity = entity]
  <2>1. i \in Ids /\ IsOpen(i) /\ Exists(i) /\ requests[i] \in Row /\ requests[i].payload.company = e.company
    BY <1>6, RowFields DEF OpenFor, IsOpen
  <2>2. requests[i].payload \in CompanyPayloads
    BY <2>1, CompanyType DEF Row
  <2>3. p \in Payloads /\ p.company = e.company /\ p.kind = requests[i].payload.kind
    BY <1>3, <2>1, <2>2, CompanyType DEF CompanyPayloads
  <2>4. entity = [requests[i] EXCEPT !.payload = p]
    BY <2>1 DEF Row
  <2>5. entity \in Row /\ entity.payload = p
    BY <2>1, <2>3, <2>4 DEF Row
  <2>6. SetEdit(h, f)
    BY <1>6
  <2>7. FitsWhileOpen(i, p) /\ About(i, e.company)
    BY <2>1, <2>3 DEF FitsWhileOpen, About, CatalogIInv, CatalogInv, KindMatchesCompany
  <2> HIDE DEF entity, p
  <2>8. /\ f \in Edit /\ f.op = e.op /\ f.company = e.company /\ f.step = "syncReload"
        /\ f.logo = e.logo /\ f.open = i /\ f.entity = entity
    BY <1>2, <2>1, <2>5 DEF Edit
  <2>9. edit'[h] = f /\ edit' \in [Handlers -> Edit \cup {NoEdit}]
    BY <2>6, <2>8, EditSet
  <2> HIDE DEF f
  <2> QED BY <1>2, <1>3, <1>4, <2>3, <2>5, <2>7, <2>8, <2>9
          DEF EditFits, About, FitsWhileOpen, IsOpen, Exists
<1> QED BY <1>5, <1>6 DEF LoadRequest

LEMMA ReloadRequestFits ==
  ASSUME CatalogIInv, NEW h \in Handlers, ReloadRequest(h)
  PROVE  EditFits(h)' /\ edit' \in [Handlers -> Edit \cup {NoEdit}]
<1> DEFINE e == edit[h]
           i == e.open
           dirty == Dirty(e.entity, requests[i])
           f == [e EXCEPT !.step = "syncFlush", !.dirty = dirty]
<1>1. e.step = "syncReload" /\ e # NoEdit
  BY DEF ReloadRequest, Step, NoEdit
<1>2. /\ e \in Edit /\ EditFits(h) /\ pc[h] = "idle" /\ e.company \in Companies
      /\ companies[e.company] # Absent
  BY <1>1, CompanyFields
<1>3. /\ e.op = "logo" /\ e.logo \in Logos /\ About(i, e.company)
      /\ e.entity \in Row /\ e.entity.payload.company = e.company
      /\ FitsWhileOpen(i, e.entity.payload)
  BY <1>1, <1>2 DEF EditFits
<1>4. requests[i] \in Row
  BY <1>3, RowFields DEF About
<1>5. dirty \subseteq Columns
  <2>1. DOMAIN requests[i] = {"type", "status", "requester", "scope", "payload", "decidedBy"}
    BY <1>4 DEF Row
  <2> QED BY <2>1 DEF Dirty, Columns
<1> HIDE DEF dirty
<1>6. /\ f \in Edit /\ f.op = e.op /\ f.company = e.company /\ f.step = "syncFlush"
      /\ f.logo = e.logo /\ f.open = i /\ f.entity = e.entity
  BY <1>2, <1>5 DEF Edit
<1>7. edit'[h] = f /\ edit' \in [Handlers -> Edit \cup {NoEdit}]
  BY <1>6, EditSet DEF ReloadRequest, dirty
<1>8. UNCHANGED <<companies, pc, requests, outpaced>>
  BY DEF ReloadRequest, vars, history
<1> HIDE DEF f
<1> QED BY <1>2, <1>3, <1>6, <1>7, <1>8 DEF EditFits, About, FitsWhileOpen, IsOpen, Exists

\* A handler that moves outside its screen has none open.
LEMMA FrameworkIsFree ==
  ASSUME CatalogIInv, NEW h \in Handlers, Acts(h), ~Screen(h)
  PROVE  edit[h] = NoEdit /\ edit' = edit
<1>1. edit[h] # NoEdit => pc[h] = "idle" /\ edit[h] \in Edit
  BY CompanyFields
<1>2. Free(h) => edit[h] = NoEdit
  BY <1>1, EditFields DEF Free, Step
<1>3. CommitSome(h) => pc[h] = "write"
  BY CommitEffect DEF CatalogIInv, IInvIn
<1>4. CASE Framework(h)
  BY <1>1, <1>2, <1>3, <1>4, FrameworkIsFramework DEF TakeAdvisoryLock, LockRow
<1>5. CASE CommitSubmit(h) \/ \E i \in Ids : ApproveCompany(h, i) \/ RejectCompany(h, i)
  <2>1. edit' = edit
    BY <1>5 DEF CommitSubmit, ApproveCompany, RejectCompany, screens
  <2> QED BY <1>1, <1>3, <1>5, <2>1, OthersAreFramework
<1>6. CASE FailTransaction(h) \/ ReadCompany(h) \/ CheckSubmittable(h) \/ NotifyDecision(h) \/ NotifyOther(h)
  BY <1>1, <1>6 DEF FailTransaction, ReadCompany, CheckSubmittable, NotifyDecision, NotifyOther,
                    Fail, Notify, screens
<1> QED BY <1>4, <1>5, <1>6 DEF Acts

LEMMA StepEdits ==
  ASSUME CatalogIInv, NEW h \in Handlers, Acts(h)
  PROVE  edit' \in [Handlers -> Edit \cup {NoEdit}] /\ \A g \in Handlers : EditFits(g)'
<1>1. CASE Screen(h)
  <2>1. CASE \E r \in Requesters, c \in Companies :
               \/ \E d \in Details : CreateCompany(h, r, c, d)
               \/ \E d \in Details, k \in Logos \cup {Keep} : LoadCompany(h, r, c, d, k)
               \/ \E k \in Logos : UploadLogo(h, r, c, k)
    BY <2>1, OthersEdits, CreateFits, LoadFits, UploadFits
  <2>2. CASE FindOpenRequest(h) \/ ReloadCompany(h) \/ FlushCompany(h) \/ LoadRequest(h) \/ ReloadRequest(h)
    BY <2>2, OthersEdits, FindFits, ReloadFits, FlushFits, LoadRequestFits, ReloadRequestFits
  <2>3. CASE Submit(h) \/ AbandonEdit(h) \/ FlushRequest(h)
    BY <2>3, OthersEdits, EditEnds DEF Submit, AbandonEdit, FlushRequest
  <2> QED BY <1>1, <2>1, <2>2, <2>3 DEF Screen
<1>2. CASE ~Screen(h)
  <2>1. \A g \in Handlers \ {h} : EditFits(g)'
    BY OthersEdits
  <2>2. edit' = edit /\ EditFits(h)'
    BY <1>2, FrameworkIsFree DEF EditFits
  <2>3. edit' \in [Handlers -> Edit \cup {NoEdit}]
    BY <2>2 DEF CatalogIInv, CatalogInv, CompanyTypeOK
  <2> QED BY <2>1, <2>2, <2>3
<1> QED BY <1>1, <1>2

-----------------------------------------------------------------------------
(* The invariant of the catalog *)

LEMMA StepCompanyTypes ==
  ASSUME CatalogIInv, NEW h \in Handlers, Acts(h)
  PROVE  CompanyTypeOK'
<1> USE DEF CatalogIInv, CatalogInv, CompanyTypeOK
<1>1. TypeOK'
  <2>1. IInvIn(Untouched)'
    BY CatalogKeepsIInv DEF CompanyNext, Acts
  <2> QED BY <2>1 DEF IInvIn
<1>2. companies' \in [Companies -> Company \cup {Absent}]
  <2>1. UNCHANGED companies \/ \E c \in Companies :
          companies' = [companies EXCEPT ![c] = companies'[c]] /\ companies'[c] \in Company
    BY CatalogMoves DEF Moves
  <2> QED BY <2>1
<1>3. objects' \in [Logos -> {"unused", "stored", "deleted"}]
  <2>1. ASSUME NEW k, Delete(k) PROVE objects' \in [Logos -> {"unused", "stored", "deleted"}]
    BY <2>1 DEF Delete
  <2>2. CASE Screen(h)
    BY <2>1, <2>2 DEF Screen, CreateCompany, LoadCompany, UploadLogo, FindOpenRequest, ReloadCompany,
                FlushCompany, Submit, AbandonEdit, LoadRequest, ReloadRequest, FlushRequest
  <2>3. CASE NotifyDecision(h)
    BY <2>1, <2>3 DEF NotifyDecision
  <2>4. CASE \/ Framework(h) \/ FailTransaction(h) \/ ReadCompany(h) \/ CheckSubmittable(h)
             \/ CommitSubmit(h) \/ NotifyOther(h)
             \/ \E i \in Ids : ApproveCompany(h, i) \/ RejectCompany(h, i)
    BY <2>4 DEF Framework, FailTransaction, ReadCompany, CheckSubmittable, CommitSubmit, NotifyOther,
                ApproveCompany, RejectCompany, screens
  <2> QED BY <2>2, <2>3, <2>4 DEF Acts
<1>4. edit' \in [Handlers -> Edit \cup {NoEdit}]
  BY StepEdits
<1>5. seen' \in [Handlers -> {"unread", "pending", "approved", "rejected"}]
  <2>1. CASE ReadCompany(h)
    <3>1. job[h].op \in {"create", "resubmit"}
      BY <2>1 DEF ReadCompany, IInvIn, OpMatchesPc
    <3>2. companies[job[h].payload.company] \in Company
      BY <3>1, SubmitterFields
    <3>3. companies[job[h].payload.company].status \in {"pending", "approved", "rejected"}
      BY <3>2 DEF Company
    <3> QED BY <2>1, <3>3 DEF ReadCompany
  <2>2. CASE Screen(h)
    BY <2>2, ScreensAreIdle
  <2>3. CASE FailTransaction(h) \/ CheckSubmittable(h) \/ CommitSubmit(h)
    BY <2>3 DEF FailTransaction, CheckSubmittable, CommitSubmit, Forget
  <2>4. CASE \/ Framework(h) \/ NotifyDecision(h) \/ NotifyOther(h)
             \/ \E i \in Ids : ApproveCompany(h, i) \/ RejectCompany(h, i)
    BY <2>4 DEF Framework, NotifyDecision, NotifyOther, ApproveCompany, RejectCompany
  <2> QED BY <2>1, <2>2, <2>3, <2>4 DEF Acts
<1>6. outpaced' \subseteq Companies /\ overwritten' \subseteq Ids
  <2>1. overwritten' \subseteq Ids
    BY RequestMoves DEF Folds
  <2> QED BY <2>1, LateStaysKnown
<1> QED BY <1>1, <1>2, <1>3, <1>4, <1>5, <1>6

LEMMA CatalogInit == CompanyInit => CatalogIInv
<1> SUFFICES ASSUME CompanyInit PROVE CatalogIInv
  OBVIOUS
<1>1. Init /\ IInvIn(Ids)
  BY InitIInv, AllIds DEF CompanyInit
<1>2. CompanyTypeOK
  BY <1>1 DEF CompanyInit, CompanyTypeOK, IInvIn
<1>3. KindMatchesCompany /\ CompaniesExist
  BY <1>1 DEF KindMatchesCompany, CompaniesExist, Init, IsOpen, Exists, NoJob
<1>4. ASSUME NEW h \in Handlers PROVE EditFits(h) /\ SubmitFits(h)
  BY <1>1 DEF CompanyInit, Init, EditFits, SubmitFits, NoJob
<1>5. Untouched = Ids /\ LateAreKnown
  BY DEF CompanyInit, Untouched, LateAreKnown
<1> QED BY <1>1, <1>2, <1>3, <1>4, <1>5 DEF CatalogIInv, CatalogInv

LEMMA CatalogStep == CatalogIInv /\ [CompanyNext]_companyVars => CatalogIInv'
<1> SUFFICES ASSUME CatalogIInv, [CompanyNext]_companyVars PROVE CatalogIInv'
  OBVIOUS
<1>1. IInvIn(Untouched)'
  BY CatalogKeepsIInv
<1>2. ASSUME UNCHANGED <<requests, pc, job, companies, objects, edit, seen, outpaced, overwritten>>
      PROVE  CatalogIInv'
  <2>1. CompanyTypeOK'
    BY <1>1, <1>2 DEF CatalogIInv, CatalogInv, CompanyTypeOK, IInvIn
  <2>2. KindMatchesCompany' /\ CompaniesExist' /\ LateAreKnown'
    BY <1>2 DEF CatalogIInv, CatalogInv, KindMatchesCompany, CompaniesExist, LateAreKnown, IsOpen, Exists
  <2>3. ASSUME NEW h \in Handlers PROVE EditFits(h)'
    BY <1>2 DEF CatalogIInv, EditFits, About, FitsWhileOpen, IsOpen, Exists
  <2>4. ASSUME NEW h \in Handlers PROVE SubmitFits(h)'
    BY <1>2 DEF CatalogIInv, SubmitFits, KindAsRead, About, Exists
  <2> QED BY <1>1, <2>1, <2>2, <2>3, <2>4 DEF CatalogIInv, CatalogInv
<1>3. ASSUME NEW h \in Handlers, Acts(h) PROVE CatalogIInv'
  BY <1>1, <1>3, StepCompanyTypes, StepKinds, StepExist, StepLate, StepEdits, StepSubmits
     DEF CatalogIInv, CatalogInv
<1>4. ASSUME NEW s \in Scopes, NEW E \in SUBSET Employees, SetApprovers(s, E),
             UNCHANGED <<screens, seen, history>>
      PROVE  CatalogIInv'
  <2>1. UNCHANGED <<requests, pc, job, companies, objects, edit, seen, outpaced, overwritten>>
    BY <1>4 DEF SetApprovers, screens, db, history
  <2> QED BY <1>2, <2>1
<1>5. CASE CompanyRestart
  <2>1. /\ UNCHANGED <<requests, companies, objects, outpaced, overwritten>>
        /\ pc' = [h \in Handlers |-> "idle"] /\ job' = [h \in Handlers |-> NoJob]
        /\ edit' = [h \in Handlers |-> NoEdit] /\ seen' = [h \in Handlers |-> "unread"]
    BY <1>5 DEF CompanyRestart, Restart, db, history
  <2>2. CompanyTypeOK'
    BY <1>1, <2>1 DEF CatalogIInv, CatalogInv, CompanyTypeOK, IInvIn
  <2>3. KindMatchesCompany' /\ CompaniesExist' /\ LateAreKnown'
    BY <2>1 DEF CatalogIInv, CatalogInv, KindMatchesCompany, CompaniesExist, LateAreKnown, IsOpen, Exists, NoJob
  <2>4. ASSUME NEW h \in Handlers PROVE EditFits(h)' /\ SubmitFits(h)'
    BY <2>1 DEF EditFits, SubmitFits, NoJob
  <2> QED BY <1>1, <2>2, <2>3, <2>4 DEF CatalogIInv, CatalogInv
<1>6. CASE UNCHANGED companyVars
  <2>1. UNCHANGED <<requests, pc, job, companies, objects, edit, seen, outpaced, overwritten>>
    BY <1>6 DEF companyVars, vars
  <2> QED BY <1>2, <2>1
<1> QED BY <1>3, <1>4, <1>5, <1>6, StepCasesOfCatalog

\* The joint invariant of companies, screens and requests, with every unlocked read
\* and late save there is: what the locks protect of the requests no late save has
\* moved, and what a screen or a submitter still knows of what it has read
\* (updateCompany, setLogo, syncLogoKey, assertSubmittable).
THEOREM CatalogInductive == CompanySpec => []CatalogIInv
<1>1. CompanyInit => CatalogIInv
  BY CatalogInit
<1>2. CatalogIInv /\ [CompanyNext]_companyVars => CatalogIInv'
  BY CatalogStep
<1> QED BY <1>1, <1>2, PTL DEF CompanySpec

-----------------------------------------------------------------------------
(* The theorems *)

\* Whatever overtakes an unlocked read, every open request fits the company it is
\* about, if no save and no submit came too late for that company: a proposal to
\* change it is open only while it is live, a request to approve it only while it
\* never was (assertSubmittable, applyDecision).
THEOREM CatalogSound == CompanySpec => []CatalogInv
<1>1. CatalogIInv => CatalogInv
  BY DEF CatalogIInv
<1> QED BY <1>1, CatalogInductive, PTL

\* What the property asks of one company, of a step of one handler.
LEMMA DecisionMovesCompany ==
  ASSUME CatalogIInv, NEW h \in Handlers, Acts(h), NEW c \in Companies, Moved(c)
  PROVE  /\ companies[c].status # "approved" /\ companies'[c].status = "approved" =>
              \E i \in Ids : TakesProposal(i, c)
         /\ \/ SavesLate(h, c)
            \/ /\ companies'[c].status # companies[c].status =>
                    \E i \in Ids : DecidedNow(i, companies'[c].status, c)
               /\ companies[c].status = "approved" =>
                    \E i \in Ids : \/ TakesProposal(i, c)
                                   \/ c \in outpaced /\ DecidedNow(i, "rejected", c)
<1>1. Moves(h, c)
  <2>1. PICK d \in Companies : Moves(h, d)
    BY CatalogMoves DEF Moved
  <2>2. companies' = [companies EXCEPT ![d] = companies'[d]]
    BY <2>1 DEF Moves
  <2>3. c = d
    BY <2>2 DEF Moved, CatalogIInv, CatalogInv, CompanyTypeOK
  <2> QED BY <2>1, <2>3
<1>2. CASE Edited(h, c)
  BY <1>2 DEF Edited
<1>3. ASSUME NEW i \in Ids, DecidesOn(h, i, c)
      PROVE  /\ companies'[c].status = "approved" => TakesProposal(i, c)
             /\ DecidedNow(i, companies'[c].status, c)
             /\ companies[c].status = "approved" =>
                  TakesProposal(i, c) \/ (c \in outpaced /\ DecidedNow(i, "rejected", c))
  <2>1. IsOpen(i) /\ requests[i].payload.company = c
    BY <1>3 DEF DecidesOn
  <2>2. requests[i].payload.kind = "create" /\ companies[c].status = "approved" => c \in outpaced
    BY <2>1 DEF CatalogIInv, CatalogInv, KindMatchesCompany
  <2> QED BY <1>3, <2>1, <2>2 DEF DecidesOn, DecidedNow, TakesProposal
<1> QED BY <1>1, <1>2, <1>3 DEF Moves, Created, Moved

\* A company becomes live only by the approval of a request about it, whatever comes
\* too late; but for the saves that do, it moves only by decisions (updateCompany,
\* applyDecision).
THEOREM DecisionsMoveCompanies == CompanySpec => OnlyDecisionsMoveCompanies
<1>1. CatalogIInv /\ [CompanyNext]_companyVars =>
        [\A c \in Companies : Moved(c) =>
           /\ companies[c].status # "approved" /\ companies'[c].status = "approved" =>
                \E i \in Ids : TakesProposal(i, c)
           /\ \/ \E h \in Handlers : SavesLate(h, c)
              \/ /\ companies'[c].status # companies[c].status =>
                      \E i \in Ids : DecidedNow(i, companies'[c].status, c)
                 /\ companies[c].status = "approved" =>
                      \E i \in Ids : \/ TakesProposal(i, c)
                                     \/ c \in outpaced /\ DecidedNow(i, "rejected", c)]_companies
  <2> SUFFICES ASSUME CatalogIInv, [CompanyNext]_companyVars, companies' # companies
               PROVE  \E h \in Handlers : Acts(h)
    BY DecisionMovesCompany
  <2> QED BY StepCasesOfCatalog DEF CompanyRestart, companyVars, screens
<1> QED BY <1>1, CatalogInductive, PTL DEF CompanySpec, OnlyDecisionsMoveCompanies

-----------------------------------------------------------------------------
(* The lifecycle of a company's requests *)

\* What request i holds in the abstract lifecycle.
HoldsOf(i) == IF Exists(i) /\ i \notin overwritten THEN {requests[i].payload.company} ELSE {}

LEMMA RowStepIsCompanyStep ==
  ASSUME CatalogIInv, IInvIn(Untouched)', NEW h \in Handlers, pc[h] = "write", NEW i \in Ids,
         RowStep(h, i), UNCHANGED overwritten,
         requests'[i].payload.company = requests[i].payload.company \/ ~Exists(i)
  PROVE  CompanyLifecycle!Next
<1> DEFINE st == [j \in Ids |-> StatusOf(j)]
           ho == [j \in Ids |-> HoldsOf(j)]
           new == IF i \in overwritten THEN {} ELSE {requests'[i].payload.company}
<1>1. requests'[i] # Absent /\ \A j \in Ids \ {i} : requests'[j] = requests[j]
  BY DEF RowStep
<1>2. /\ st' = [st EXCEPT ![i] = requests'[i].status]
      /\ ho' = [ho EXCEPT ![i] = new]
  <2>1. StatusOf(i)' = requests'[i].status /\ HoldsOf(i)' = new
    BY <1>1 DEF StatusOf, HoldsOf, Exists
  <2>2. \A j \in Ids \ {i} : StatusOf(j)' = StatusOf(j) /\ HoldsOf(j)' = HoldsOf(j)
    BY <1>1 DEF StatusOf, HoldsOf, Exists
  <2> QED BY <2>1, <2>2
<1>3. new \in {{}} \cup {{c} : c \in Companies}
  <2>1. requests'[i].payload \in Payloads
    BY <1>1 DEF IInvIn, TypeOK, Row
  <2> QED BY <2>1, PayloadFields
<1>4. CASE job[h].op \in {"create", "resubmit"}
  <2>1. requests'[i].status = "pending" /\ requests'[i].payload = job[h].payload
    BY <1>4 DEF RowStep
  <2>2. ASSUME NEW j \in Ids \ {i}, st[j] \in Open PROVE new \cap ho[j] = {}
    <3>1. CASE ho[j] = {} \/ new = {}
      BY <3>1
    <3>2. CASE ho[j] # {} /\ new # {}
      <4>1. j \in Untouched /\ IsOpen(j) /\ ho[j] = Held(j)
        <5>1. Exists(j) /\ j \notin overwritten /\ ho[j] = {requests[j].payload.company}
          BY <3>2 DEF HoldsOf
        <5> QED BY <2>2, <5>1, RowFields DEF Untouched, IsOpen, StatusOf
      <4>2. new = ClaimsOf[job[h].payload]
        BY <1>4, <2>1, <3>2, SubmitterFields, PayloadFields
      <4>3. ~Clashes(job[h].payload, j)
        BY <1>4, <4>1 DEF RowStep, CatalogIInv, IInvIn, ChecksStayValidIn, ClaimsAreFreeIn
      <4> QED BY <4>1, <4>2, <4>3 DEF Clashes
    <3> QED BY <3>1, <3>2
  <2>3. PICK S \in {{}} \cup {{c} : c \in Companies} : S = new
    BY <1>3
  <2>4. CompanyLifecycle!Free(i, S) /\ ho' = [ho EXCEPT ![i] = S]
    BY <1>2, <2>2, <2>3 DEF CompanyLifecycle!Free, CompanyLifecycle!Open, Open, HoldsOf
  <2>5. st[i] = IF job[h].op = "create" THEN "absent" ELSE "sent_back"
    BY <1>4 DEF RowStep, StatusOf, Exists
  <2>6. CompanyLifecycle!Raise(i, S) \/ CompanyLifecycle!Resubmit(i, S)
    BY <1>2, <2>1, <2>4, <2>5 DEF CompanyLifecycle!Raise, CompanyLifecycle!Resubmit, HoldsOf
  <2> QED BY <2>6 DEF CompanyLifecycle!Next
<1>5. CASE job[h].op \notin {"create", "resubmit"}
  <2>1. Exists(i) /\ ho' = ho
    <3>1. Exists(i) /\ requests'[i].payload.company = requests[i].payload.company
      BY <1>5 DEF RowStep, Exists
    <3>2. ho[i] = new
      BY <3>1 DEF HoldsOf
    <3> QED BY <1>2, <3>1, <3>2
  <2>2. st[i] = requests[i].status
    BY <2>1 DEF StatusOf
  <2>3. \/ st[i] \in {"pending", "sent_back"} /\ requests'[i].status = "cancelled"
        \/ st[i] = "pending" /\ requests'[i].status \in Decided
        \/ st[i] = "pending" /\ requests'[i].status = "sent_back"
    BY <1>5, <2>2 DEF RowStep, Open
  <2>4. \/ CompanyLifecycle!Cancel(i)
        \/ \E verdict \in Decided : CompanyLifecycle!Decide(i, verdict)
        \/ CompanyLifecycle!SendBack(i)
    BY <1>2, <2>1, <2>3
       DEF CompanyLifecycle!Cancel, CompanyLifecycle!Decide, CompanyLifecycle!SendBack,
           CompanyLifecycle!Open, HoldsOf
  <2> QED BY <2>4 DEF CompanyLifecycle!Next, CompanyLifecycle!Decided, Decided
<1> QED BY <1>4, <1>5

\* A fold of a logo that moves the status of its request is one that comes too late;
\* any other changes nothing the lifecycle speaks of.
LEMMA FoldIsLateOrStutters ==
  ASSUME CatalogIInv, NEW h \in Handlers, NEW i \in Ids, Folds(h, i)
  PROVE  SyncsLate(h) \/ UNCHANGED CompanyLifecycle!lifecycle
<1>1. /\ Exists(i) /\ requests'[i] # Absent
      /\ requests'[i].payload.company = requests[i].payload.company
      /\ \A j \in Ids \ {i} : requests'[j] = requests[j]
  BY RoutingData DEF Folds, CatalogIInv, IInvIn, TypeOK
<1>2. CASE requests'[i].status = requests[i].status
  <2>1. \A j \in Ids : StatusOf(j)' = StatusOf(j) /\ HoldsOf(j)' = HoldsOf(j)
    BY <1>1, <1>2 DEF Folds, StatusOf, HoldsOf, Exists
  <2> QED BY <2>1 DEF CompanyLifecycle!lifecycle, HoldsOf
<1>3. CASE requests'[i].status # requests[i].status
  BY <1>1, <1>3 DEF Folds, SyncsLate
<1> QED BY <1>2, <1>3

\* With edits, uploads and logos folded into open requests going on around it, the
\* requests about companies are the atomic lifecycle, one open request to a company,
\* up to the folds that come too late and the requests these have touched.
THEOREM CompaniesRefineLifecycle == CompanySpec => CompanyRequestsFollowLifecycle
<1>1. CompanyInit => CompanyLifecycle!Init
  BY DEF CompanyInit, Init, StatusOf, Exists, CompanyLifecycle!Init
<1>2. CatalogIInv /\ CatalogIInv' /\ [CompanyNext]_companyVars =>
        [CompanyLifecycle!Next \/ \E h \in Handlers : SyncsLate(h)]_(CompanyLifecycle!lifecycle)
  <2> SUFFICES ASSUME CatalogIInv, IInvIn(Untouched)', [CompanyNext]_companyVars
               PROVE  CompanyLifecycle!Next \/ (\E h \in Handlers : SyncsLate(h))
                        \/ UNCHANGED CompanyLifecycle!lifecycle
    BY DEF CatalogIInv
  <2>1. ASSUME UNCHANGED <<requests, overwritten>> PROVE UNCHANGED CompanyLifecycle!lifecycle
    BY <2>1 DEF CompanyLifecycle!lifecycle, StatusOf, Exists
  <2>2. ASSUME NEW h \in Handlers, Acts(h)
        PROVE  CompanyLifecycle!Next \/ SyncsLate(h) \/ UNCHANGED CompanyLifecycle!lifecycle
    <3>1. ASSUME pc[h] = "write", NEW i \in Ids, RowStep(h, i), UNCHANGED overwritten
          PROVE  CompanyLifecycle!Next
      BY <2>2, <3>1, RequestsStay, RowStepIsCompanyStep
    <3>2. CASE UNCHANGED <<requests, overwritten>>
      BY <2>1, <3>2
    <3>3. ASSUME NEW i \in Ids, Folds(h, i)
          PROVE  SyncsLate(h) \/ UNCHANGED CompanyLifecycle!lifecycle
      BY <3>3, FoldIsLateOrStutters
    <3>4. \/ UNCHANGED <<requests, overwritten>>
          \/ \E i \in Ids : Folds(h, i)
          \/ pc[h] = "write" /\ UNCHANGED overwritten /\ \E i \in Ids : RowStep(h, i)
      BY <2>2, RequestMoves
    <3> QED BY <3>1, <3>2, <3>3, <3>4
  <2>3. ASSUME NEW s \in Scopes, NEW E \in SUBSET Employees, SetApprovers(s, E),
               UNCHANGED <<screens, seen, history>>
        PROVE  UNCHANGED <<requests, overwritten>>
    BY <2>3 DEF SetApprovers, db, history
  <2>4. CASE CompanyRestart \/ UNCHANGED companyVars
    BY <2>1, <2>4 DEF CompanyRestart, Restart, db, companyVars, vars, history
  <2> QED BY <2>1, <2>2, <2>3, <2>4, StepCasesOfCatalog
<1> QED BY <1>1, <1>2, CatalogInductive, PTL DEF CompanySpec, CompanyRequestsFollowLifecycle

-----------------------------------------------------------------------------
(* The packages of a drive *)

Selections == [profile : Profiles \cup {NoProfile}, package : Package]

\* A figure as a row holds it.
InOrder(f) == Complete(f) /\ (f.mode = "range" => f.min <= f.max)

\* A stored drive: whoever is listed belongs to a side with an offer type and
\* figures in order, which carry what the offer type wants unless it was edited.
DriveFits ==
  drive # NoDrive =>
    /\ drive \in Drives /\ DOMAIN drive.sides # {}
    /\ \A p \in Listed :
         /\ Owner(p) \in Sides /\ Owner(p).offer \in Offers \ {NoOffer}
         /\ ~reclassified => PackageMatches(Owner(p))

SelectionFits ==
  selection # NoSelection =>
    /\ selection \in Selections /\ drive # NoDrive
    /\ selection.profile \in Listed \cup {NoProfile}

PackagesIInv ==
  /\ flags \in [Offers -> (SUBSET Kinds) \ {{}}] /\ reclassified \in BOOLEAN
  /\ DriveFits /\ SelectionFits /\ RecordedInOrder

-----------------------------------------------------------------------------
(* Storing *)

\* A stored figure is null when the number was, and otherwise one the column holds.
LEMMA StoredIsAmount ==
  ASSUME NEW a \in Amounts \cup {Null}
  PROVE  /\ Stored(a) \in Amounts \cup {Null}
         /\ Stored(a) = Null <=> a = Null
  BY RoundingAssumption, PackageAssumption DEF Stored, Amounts, Null

\* Two figures in order are stored in order, and may be stored as one.
LEMMA StoredInOrder ==
  ASSUME NEW a \in Amounts, NEW b \in Amounts, a < b
  PROVE  Stored(a) <= Stored(b) /\ Stored(a) # Null /\ Stored(b) # Null
<1>1. a # Null /\ b # Null /\ a <= b
  BY PackageAssumption DEF Amounts, Null
<1>2. Stored(a) = Rounded[a] /\ Stored(b) = Rounded[b]
  BY <1>1 DEF Stored
<1>3. Rounded[a] <= Rounded[b]
  BY <1>1, RoundingAssumption
<1>4. Rounded[a] \in Amounts /\ Rounded[b] \in Amounts
  BY RoundingAssumption
<1> QED BY <1>2, <1>3, <1>4, PackageAssumption DEF Amounts, Null

LEMMA StoredSideFits ==
  ASSUME NEW side \in [offer : Offers \cup {NoOffer}, figure : [Kinds -> Requestable]]
  PROVE  /\ StoredSide(side) \in Sides /\ StoredSide(side).offer = side.offer
         /\ \A k \in Kinds : StoredSide(side).figure[k].mode = side.figure[k].mode
<1>1. ASSUME NEW k \in Kinds
      PROVE  StoredFigure(side.figure[k]) \in Advertised /\ StoredFigure(side.figure[k]).mode = side.figure[k].mode
  <2>1. side.figure[k] \in Figures /\ AmountOK(side.figure[k])
    BY DEF Requestable
  <2>2. /\ side.figure[k].min \in Amounts \cup {Null} /\ side.figure[k].max \in Amounts \cup {Null}
        /\ side.figure[k].mode \in {"none", "fixed", "range"}
    BY <2>1 DEF Figures
  <2>3. side.figure[k].mode = "range" => Stored(side.figure[k].min) <= Stored(side.figure[k].max)
    BY <2>1, <2>2, StoredInOrder DEF AmountOK, Complete
  <2>4. /\ Stored(side.figure[k].min) \in Amounts \cup {Null} /\ Stored(side.figure[k].max) \in Amounts \cup {Null}
        /\ Stored(side.figure[k].min) = Null <=> side.figure[k].mode = "none"
        /\ Stored(side.figure[k].max) = Null <=> side.figure[k].mode # "range"
    BY <2>1, <2>2, StoredIsAmount DEF AmountOK, Complete
  <2> QED BY <2>2, <2>3, <2>4 DEF StoredFigure, Advertised, Figures, Complete
<1> QED BY <1>1 DEF StoredSide, Sides

LEMMA StoredPackageFits ==
  ASSUME NEW package \in Package
  PROVE  /\ StoredPackage(package) \in Package
         /\ \A k \in Kinds : /\ StoredPackage(package).main[k] = Stored(package.main[k])
                            /\ StoredPackage(package).lower[k] = Stored(package.lower[k])
<1>1. \A k \in Kinds : package.main[k] \in Amounts \cup {Null} /\ package.lower[k] \in Amounts \cup {Null}
  BY DEF Package
<1>2. \A k \in Kinds : /\ Stored(package.main[k]) \in Amounts \cup {Null}
                      /\ Stored(package.lower[k]) \in Amounts \cup {Null}
  BY <1>1, StoredIsAmount
<1> QED BY <1>2 DEF StoredPackage, Package

-----------------------------------------------------------------------------
(* The form and the sheet *)

\* What an offer type carries, of a listed designation.
LEMMA CarriesFlags ==
  ASSUME PackagesIInv, NEW p \in Listed
  PROVE  /\ Carries(p) = flags[Owner(p).offer] /\ Carries(p) \in SUBSET Kinds /\ Carries(p) # {}
         /\ \A k \in Kinds : Owner(p).figure[k] \in Figures /\ InOrder(Owner(p).figure[k])
<1>1. Owner(p) \in Sides /\ Owner(p).offer \in Offers \ {NoOffer}
  BY DEF PackagesIInv, DriveFits, Listed
<1>2. Carries(p) = flags[Owner(p).offer] /\ Carries(p) \in SUBSET Kinds /\ Carries(p) # {}
  BY <1>1 DEF Carries, PackagesIInv
<1> QED BY <1>1, <1>2 DEF Sides, Advertised, InOrder

\* What stands in for a blank cell is a figure above zero, or nothing.
LEMMA DefaultIsFigure ==
  ASSUME NEW f \in Figures, InOrder(f)
  PROVE  /\ DefaultOf(f) \in [main : Amounts \cup {Null}, lower : Amounts \cup {Null}]
         /\ DefaultOf(f).main # 0 /\ DefaultOf(f).lower # 0
         /\ DefaultOf(f).lower # Null => f.mode = "range" /\ DefaultOf(f).main # Null
         /\ f.mode = "fixed" => (DefaultOf(f).main # Null <=> f.min > 0) /\ DefaultOf(f).lower = Null
         /\ f.mode = "range" =>
              ((DefaultOf(f).main # Null /\ (DefaultOf(f).lower # Null => DefaultOf(f).lower < DefaultOf(f).main))
                 <=> f.min < f.max)
<1>1. /\ f.min \in Amounts \cup {Null} /\ f.max \in Amounts \cup {Null} /\ f.mode \in {"none", "fixed", "range"}
      /\ f.min = Null <=> f.mode = "none"
      /\ f.max = Null <=> f.mode # "range"
      /\ f.mode = "range" => f.min <= f.max
  BY DEF Figures, InOrder, Complete
<1>2. /\ Positive(f.min) = IF f.min > 0 THEN f.min ELSE Null
      /\ Positive(f.max) = IF f.max > 0 THEN f.max ELSE Null
  BY DEF Positive
<1>3. CASE f.mode = "none"
  BY <1>1, <1>3 DEF DefaultOf, Null
<1>4. CASE f.mode = "fixed"
  <2>1. DefaultOf(f) = [main |-> Positive(f.min), lower |-> Null]
    BY <1>4 DEF DefaultOf
  <2> QED BY <1>1, <1>2, <1>4, <2>1, PackageAssumption DEF Amounts, Null
<1>5. CASE f.mode = "range"
  <2>1. DefaultOf(f) = IF f.max > 0 THEN [main |-> f.max, lower |-> Positive(f.min)]
                       ELSE [main |-> Null, lower |-> Null]
    BY <1>1, <1>2, <1>5, PackageAssumption DEF DefaultOf, Amounts, Null
  <2> QED BY <1>1, <1>2, <1>5, <2>1, PackageAssumption DEF Amounts, Null
<1> QED BY <1>1, <1>3, <1>4, <1>5

\* What a sheet row comes to is a package.
LEMMA ResolvedIsPackage ==
  ASSUME PackagesIInv, NEW p \in Listed, NEW row \in Package
  PROVE  /\ Resolved(p, row) \in Package
         /\ \A k \in Kinds :
              /\ Fills(p, k, row) => /\ Resolved(p, row).main[k] = DefaultOf(Owner(p).figure[k]).main
                                     /\ Resolved(p, row).lower[k] = DefaultOf(Owner(p).figure[k]).lower
              /\ ~Fills(p, k, row) => /\ Resolved(p, row).main[k] = row.main[k]
                                      /\ Resolved(p, row).lower[k] = row.lower[k]
<1> DEFINE default(k) == DefaultOf(Owner(p).figure[k])
<1>1. \A k \in Kinds : default(k).main \in Amounts \cup {Null} /\ default(k).lower \in Amounts \cup {Null}
  BY CarriesFlags, DefaultIsFigure
<1> HIDE DEF default
<1>2. Resolved(p, row) =
        [main  |-> [k \in Kinds |-> IF Fills(p, k, row) THEN default(k).main ELSE row.main[k]],
         lower |-> [k \in Kinds |-> IF Fills(p, k, row) THEN default(k).lower ELSE row.lower[k]]]
  BY DEF Resolved, default
<1> QED BY <1>1, <1>2 DEF Package, default

\* A row the sheet accepts the form would accept as resolved.
LEMMA SheetThenForm ==
  ASSUME PackagesIInv, NEW p \in Listed, NEW row \in Package, SheetAccepts(p, row)
  PROVE  FormAccepts(p, Resolved(p, row))
<1> SUFFICES ASSUME NEW k \in Kinds
             PROVE  LET main == Resolved(p, row).main[k]  lower == Resolved(p, row).lower[k] IN
                    /\ main # 0 /\ lower # 0
                    /\ (main # Null) <=> k \in Carries(p)
                    /\ lower # Null => /\ main # Null /\ lower < main
                                       /\ Owner(p).figure[k].mode = "range"
  BY DEF FormAccepts
<1>1. /\ row.main[k] # 0 /\ row.lower[k] # 0
      /\ (Resolved(p, row).main[k] # Null) <=> k \in Carries(p)
      /\ LowerFits(p, k, Resolved(p, row).main[k], Resolved(p, row).lower[k])
  BY DEF SheetAccepts
<1>2. Resolved(p, row).main[k] # 0 /\ Resolved(p, row).lower[k] # 0
  BY <1>1, ResolvedIsPackage, CarriesFlags, DefaultIsFigure
<1> QED BY <1>1, <1>2 DEF LowerFits

\* What the form accepts the sheet records unchanged.
LEMMA FormThenSheet ==
  ASSUME PackagesIInv, NEW p \in Listed, NEW row \in Package, FormAccepts(p, row)
  PROVE  SheetAccepts(p, row) /\ Resolved(p, row) = row
<1>1. \A k \in Kinds : /\ row.main[k] # 0 /\ row.lower[k] # 0
                       /\ (row.main[k] # Null) <=> k \in Carries(p)
                       /\ row.lower[k] # Null => /\ row.main[k] # Null /\ row.lower[k] < row.main[k]
                                                 /\ Owner(p).figure[k].mode = "range"
  BY DEF FormAccepts
<1>2. \A k \in Kinds : ~Fills(p, k, row)
  BY <1>1 DEF Fills
<1>3. Resolved(p, row) \in Package
      /\ \A k \in Kinds : Resolved(p, row).main[k] = row.main[k] /\ Resolved(p, row).lower[k] = row.lower[k]
  BY <1>2, ResolvedIsPackage
<1>4. Resolved(p, row).main = row.main /\ Resolved(p, row).lower = row.lower
  BY <1>3 DEF Package
<1>5. Resolved(p, row) = row
  BY <1>3, <1>4 DEF Package
<1> QED BY <1>1, <1>5 DEF SheetAccepts, LowerFits

\* Blank rows are accepted just when every figure the offer type carries is one
\* the sheet can take over.
LEMMA BlankRows ==
  ASSUME PackagesIInv, NEW p \in Listed, PackageMatches(Owner(p))
  PROVE  SheetAccepts(p, BlankRow) <=>
           \A k \in Carries(p) :
             LET f == Owner(p).figure[k] IN IF f.mode = "fixed" THEN f.min > 0 ELSE f.min < f.max
<1>1. BlankRow \in Package /\ \A k \in Kinds : BlankRow.main[k] = Null /\ BlankRow.lower[k] = Null
  BY DEF BlankRow, Package
<1>2. /\ Carries(p) \subseteq Kinds
      /\ \A k \in Kinds : (Owner(p).figure[k].mode # "none") <=> k \in Carries(p)
      /\ \A k \in Kinds : Owner(p).figure[k].mode \in {"none", "fixed", "range"}
  BY CarriesFlags DEF PackageMatches, Figures
<1>3. ASSUME NEW k \in Kinds, k \notin Carries(p)
      PROVE  /\ Resolved(p, BlankRow).main[k] = Null /\ Resolved(p, BlankRow).lower[k] = Null
  BY <1>1, <1>3, ResolvedIsPackage DEF Fills
<1>4. ASSUME NEW k \in Carries(p)
      PROVE  /\ Resolved(p, BlankRow).main[k] # Null
             /\ LowerFits(p, k, Resolved(p, BlankRow).main[k], Resolved(p, BlankRow).lower[k])
             <=> IF Owner(p).figure[k].mode = "fixed" THEN Owner(p).figure[k].min > 0
                 ELSE Owner(p).figure[k].min < Owner(p).figure[k].max
  <2>1. k \in Kinds /\ Fills(p, k, BlankRow)
    BY <1>1, <1>2 DEF Fills
  <2>2. /\ Resolved(p, BlankRow).main[k] = DefaultOf(Owner(p).figure[k]).main
        /\ Resolved(p, BlankRow).lower[k] = DefaultOf(Owner(p).figure[k]).lower
    BY <1>1, <2>1, ResolvedIsPackage
  <2>3. Owner(p).figure[k] \in Figures /\ InOrder(Owner(p).figure[k])
    BY <2>1, CarriesFlags
  <2>4. CASE Owner(p).figure[k].mode = "fixed"
    BY <2>2, <2>3, <2>4, DefaultIsFigure DEF LowerFits
  <2>5. CASE Owner(p).figure[k].mode = "range"
    BY <2>2, <2>3, <2>5, DefaultIsFigure DEF LowerFits
  <2> QED BY <1>2, <2>1, <2>4, <2>5
<1>5. Null # 0
  BY DEF Null
<1> QED BY <1>1, <1>2, <1>3, <1>4, <1>5 DEF SheetAccepts, LowerFits

-----------------------------------------------------------------------------
(* The invariant *)

\* A package the form accepts has a figure, and is stored with its bounds in order.
LEMMA AcceptedInOrder ==
  ASSUME PackagesIInv, NEW p \in Listed, NEW package \in Package, FormAccepts(p, package)
  PROVE  LET kept == StoredPackage(package) IN
         /\ \E k \in Kinds : kept.main[k] # Null
         /\ \A k \in Kinds : kept.lower[k] # Null => kept.main[k] # Null /\ kept.lower[k] <= kept.main[k]
<1>1. \A k \in Kinds : package.main[k] \in Amounts \cup {Null} /\ package.lower[k] \in Amounts \cup {Null}
  BY DEF Package
<1>2. PICK k \in Kinds : k \in Carries(p)
  BY CarriesFlags
<1>3. StoredPackage(package).main[k] # Null
  BY <1>1, <1>2, StoredPackageFits, StoredIsAmount DEF FormAccepts
<1>4. ASSUME NEW c \in Kinds, StoredPackage(package).lower[c] # Null
      PROVE  /\ StoredPackage(package).main[c] # Null
             /\ StoredPackage(package).lower[c] <= StoredPackage(package).main[c]
  <2>1. package.lower[c] # Null
    BY <1>1, <1>4, StoredPackageFits, StoredIsAmount
  <2>2. package.main[c] # Null /\ package.lower[c] < package.main[c]
    BY <2>1 DEF FormAccepts
  <2> QED BY <1>1, <2>1, <2>2, StoredPackageFits, StoredInOrder
<1> QED BY <1>3, <1>4

\* Recording a selection, in whichever way, keeps the invariant.
LEMMA RecordStep ==
  ASSUME PackagesIInv, NEW p \in Listed, NEW package \in Package,
         RecordByForm(p, package) \/ RecordBySheet(p, package)
  PROVE  PackagesIInv'
<1>1. PICK asked \in Package : /\ FormAccepts(p, asked)
                               /\ selection' = [profile |-> p, package |-> StoredPackage(asked)]
                               /\ UNCHANGED <<flags, drive, reclassified>>
  BY SheetThenForm, ResolvedIsPackage DEF RecordByForm, RecordBySheet
<1>2. drive # NoDrive /\ p \in Profiles
  BY DEF Listed, PackagesIInv, DriveFits, Drives, PartialFunctions
<1>3. selection' \in Selections /\ selection'.profile = p /\ selection'.package = StoredPackage(asked)
  BY <1>1, <1>2, StoredPackageFits DEF Selections
<1>4. RecordedInOrder'
  BY <1>1, <1>3, AcceptedInOrder DEF RecordedInOrder
<1>5. SelectionFits'
  BY <1>1, <1>2, <1>3 DEF SelectionFits, Listed
<1>6. DriveFits'
  BY <1>1 DEF PackagesIInv, DriveFits, Listed, Owner, PackageMatches
<1> QED BY <1>1, <1>4, <1>5, <1>6 DEF PackagesIInv

\* A drive that passed validation, as it is stored.
LEMMA RequestedFits ==
  ASSUME NEW listed \in SUBSET Profiles, NEW d \in Requested(listed), Valid(d)
  PROVE  LET kept == StoredDrive(d) IN
         /\ kept \in Drives /\ kept # NoDrive /\ DOMAIN kept.sides = listed /\ listed # {}
         /\ \A p \in listed : LET side == IF kept.scope = "designation" THEN kept.sides[p] ELSE kept.side IN
              side \in Sides /\ side.offer \in Offers \ {NoOffer} /\ PackageMatches(side)
<1> DEFINE Asked == [offer : Offers \cup {NoOffer}, figure : [Kinds -> Requestable]]
<1>1. Blank \in Asked
  BY DEF Blank, NoFigure, Requestable, Figures, AmountOK, Complete, Null
<1>2. \A side \in Matching : side \in Asked /\ PackageMatches(side)
  BY DEF Matching
<1>3. \A side \in Asked : StoredSide(side) \in Sides
  BY StoredSideFits
<1>4. \A side \in Matching : /\ StoredSide(side).offer \in Offers \ {NoOffer}
                             /\ PackageMatches(StoredSide(side))
  <2> TAKE side \in Matching
  <2>1. /\ StoredSide(side).offer = side.offer
        /\ \A k \in Kinds : StoredSide(side).figure[k].mode = side.figure[k].mode
    BY <1>2, StoredSideFits
  <2>2. side.offer \in Offers \cup {NoOffer} /\ PackageMatches(side)
    BY <1>2
  <2> QED BY <2>1, <2>2 DEF PackageMatches
<1>5. /\ StoredDrive(d).scope = d.scope /\ StoredDrive(d).side = StoredSide(d.side)
      /\ StoredDrive(d).sides = [p \in DOMAIN d.sides |-> StoredSide(d.sides[p])]
      /\ StoredDrive(d) = [scope |-> d.scope, side |-> StoredSide(d.side),
                           sides |-> [p \in DOMAIN d.sides |-> StoredSide(d.sides[p])]]
  BY DEF StoredDrive
<1>6. DOMAIN d.sides = listed /\ d.scope \in {"drive", "designation"} /\ listed # {}
  BY DEF Requested, Valid
<1>7. /\ d.side \in Asked /\ \A p \in listed : d.sides[p] \in Asked
      /\ d.scope = "drive" => d.side \in Matching
      /\ d.scope = "designation" => \A p \in listed : d.sides[p] \in Matching
  BY <1>1, <1>2 DEF Requested
<1> HIDE DEF Asked
<1>8. [p \in listed |-> StoredSide(d.sides[p])] \in PartialFunctions(Profiles, Sides)
  <2>1. [p \in listed |-> StoredSide(d.sides[p])] \in [listed -> Sides]
    BY <1>3, <1>7
  <2> QED BY <2>1 DEF PartialFunctions
<1>9. StoredDrive(d) \in Drives
  BY <1>3, <1>5, <1>6, <1>7, <1>8 DEF Drives
<1>10. \A p \in listed : StoredDrive(d).sides[p] = StoredSide(d.sides[p])
  BY <1>5, <1>6
<1>11. DOMAIN StoredDrive(d).sides = listed
  BY <1>5, <1>6
<1> QED BY <1>3, <1>4, <1>5, <1>6, <1>7, <1>9, <1>10, <1>11, NothingAssumption

\* Saving the drive keeps it.
LEMMA SaveStep ==
  ASSUME PackagesIInv, NEW listed \in SUBSET Profiles, SaveDrive(listed) PROVE PackagesIInv'
<1>1. PICK d \in Requested(listed) : Valid(d) /\ drive' = StoredDrive(d)
  BY DEF SaveDrive
<1>2. /\ flags' = flags /\ reclassified' = FALSE /\ selection' = Detached(listed)
  BY DEF SaveDrive
<1>3. /\ drive' \in Drives /\ drive' # NoDrive /\ DOMAIN drive'.sides = listed /\ listed # {}
      /\ \A p \in listed : LET side == IF drive'.scope = "designation" THEN drive'.sides[p] ELSE drive'.side IN
           side \in Sides /\ side.offer \in Offers \ {NoOffer} /\ PackageMatches(side)
  BY <1>1, RequestedFits
<1>4. Listed' = listed
  BY <1>3 DEF Listed
<1>5. DriveFits'
  BY <1>2, <1>3, <1>4 DEF DriveFits, Owner, PackageMatches
<1>6. selection' # NoSelection =>
        /\ selection # NoSelection /\ selection' \in Selections
        /\ selection'.profile \in listed \cup {NoProfile} /\ selection'.package = selection.package
  BY <1>2 DEF Detached, PackagesIInv, SelectionFits, Selections
<1>7. SelectionFits' /\ RecordedInOrder'
  BY <1>3, <1>4, <1>6 DEF SelectionFits, RecordedInOrder, PackagesIInv
<1> QED BY <1>2, <1>5, <1>7 DEF PackagesIInv

\* Editing an offer type keeps it.
LEMMA EditStep ==
  ASSUME PackagesIInv, NEW o \in Offers, NEW kinds \in SUBSET Kinds, EditOfferType(o, kinds)
  PROVE  PackagesIInv'
<1>1. /\ flags' \in [Offers -> (SUBSET Kinds) \ {{}}] /\ drive' = drive /\ selection' = selection
      /\ reclassified' = (drive # NoDrive)
  BY DEF EditOfferType, PackagesIInv
<1>2. DriveFits'
  BY <1>1 DEF PackagesIInv, DriveFits, Listed, Owner
<1>3. SelectionFits' /\ RecordedInOrder'
  BY <1>1 DEF PackagesIInv, SelectionFits, Listed, RecordedInOrder
<1> QED BY <1>1, <1>2, <1>3 DEF PackagesIInv

LEMMA PackagesInvariant == PackagesSpec => []PackagesIInv
<1>1. PackagesInit => PackagesIInv
  BY DEF PackagesInit, PackagesIInv, DriveFits, SelectionFits, RecordedInOrder
<1>2. PackagesIInv /\ [PackagesNext]_packageVars => PackagesIInv'
  <2> SUFFICES ASSUME PackagesIInv, [PackagesNext]_packageVars PROVE PackagesIInv'
    OBVIOUS
  <2>1. CASE UNCHANGED packageVars
    BY <2>1 DEF packageVars, PackagesIInv, DriveFits, SelectionFits, RecordedInOrder, Listed, Owner, PackageMatches
  <2> QED BY <2>1, RecordStep, SaveStep, EditStep DEF PackagesNext
<1> QED BY <1>1, <1>2, PTL DEF PackagesSpec

\* A recorded package has a figure, no bound above its figure, and a designation
\* the drive still lists, or none, however the column rounds and whatever became of
\* the drive and of its offer types since (drive-students.service.ts,
\* drives.service.ts).
THEOREM PackagesSound == PackagesSpec => []PackagesInv
<1>1. PackagesIInv => PackagesInv
  BY DEF PackagesIInv, PackagesInv, PackagesTypeOK, DriveFits, SelectionFits, Drives, Selections, Listed
<1> QED BY <1>1, PackagesInvariant, PTL

\* The selection sheet accepts what the form accepts, and blank cells that the
\* drive's own figures can fill (validateSelectionRows and assertSelection).
THEOREM SheetFollowsTheForm == PackagesSpec => []SheetFollowsForm
<1>1. PackagesIInv => SheetFollowsForm
  <2> SUFFICES ASSUME PackagesIInv PROVE SheetFollowsForm
    OBVIOUS
  <2>1. SheetAgreesWithForm
    BY SheetThenForm, FormThenSheet DEF SheetAgreesWithForm
  <2>2. BareRollsSuffice
    <3>1. \A p \in Listed : ~reclassified => PackageMatches(Owner(p))
      BY DEF PackagesIInv, DriveFits, Listed
    <3> QED BY <3>1, BlankRows DEF BareRollsSuffice
  <2> QED BY <2>1, <2>2 DEF SheetFollowsForm
<1> QED BY <1>1, PackagesInvariant, PTL
=============================================================================
