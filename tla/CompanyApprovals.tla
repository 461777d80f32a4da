-------------------------- MODULE CompanyApprovals --------------------------
(***************************************************************************)
(* Companies of the placement catalog on top of the approval framework:    *)
(* the company_approval request type                                       *)
(* (employee/corporate-relations/company-approval.service.ts) and the      *)
(* screens that create a company, edit it and upload its logo              *)
(* (corporate-relations.service.ts).                                       *)
(*                                                                         *)
(* Outside the framework's transactions the screens work on entities they  *)
(* have loaded without a lock and hand to TypeORM's save, which reads the  *)
(* row again and updates the columns in which the entity differs from it:  *)
(* Reload and Flush.  Nothing holds the row in between, so a save can come *)
(* late and write over what was decided meanwhile, as can a submit whose   *)
(* company has moved since it was checked.  The code remembers nothing of  *)
(* this; the history variables outpaced and overwritten do, so that the    *)
(* properties can say what still holds of everything else.                 *)
(*                                                                         *)
(* Name, website, categories, roles and is_active are abstracted to the    *)
(* company's details; the logo is kept apart because it is uploaded on its *)
(* own and its objects are deleted.                                        *)
(***************************************************************************)
EXTENDS ApprovalRequests

CONSTANTS Companies,
          Details,     \* name, website, categories and roles of a company
          Logos,       \* object keys, a fresh one for every upload
          NoLogo,
          Keep         \* the form leaves the logo as it is

VARIABLES companies,   \* the companies table
          objects,     \* the logo objects in the bucket
          edit,        \* the company screens' requests that are not in a transaction
          seen,        \* the company status assertSubmittable has read, until the commit
          outpaced,    \* history: companies that a save or a submit came too late for
          overwritten  \* history: requests whose status a late save of a logo changed

history == <<outpaced, overwritten>>
companyVars == <<vars, companies, objects, edit, seen, outpaced, overwritten>>
screens == <<companies, objects, edit>>

CompanyPayloads == [kind : {"create", "update"}, company : Companies, details : Details,
                    logo : Logos \cup {NoLogo}, current : Logos \cup {NoLogo}]

\* The framework's parameters: requests about one company clash and serialise.
ASSUME CompanyType ==
  /\ Types = {"company_approval"} /\ OpenRoutes = {}
  /\ Payloads = CompanyPayloads
  /\ TypeOf = [p \in Payloads |-> "company_approval"]
  /\ ClaimsOf = [p \in Payloads |-> {p.company}]
  /\ LockKey = [p \in Payloads |-> p.company]
  /\ MaySubmit = [r \in Requesters |-> Payloads]

Company == [status : {"pending", "approved", "rejected"}, details : Details,
            logo : Logos \cup {NoLogo}]

\* Absent is no row.
ASSUME CompanyRows == Absent \notin Company

NoEdit == [step |-> "none"]

Columns == {"type", "status", "details", "logo", "requester", "scope", "payload", "decidedBy"}

Edit == [op : {"update", "logo"}, who : Requesters, company : Companies, details : Details,
         logo : Logos \cup {NoLogo, Keep}, previous : Logos \cup {NoLogo},
         entity : Company \cup Row, dirty : SUBSET Columns, open : Ids \cup {Absent},
         step : {"open", "reload", "flush", "submit", "sync", "syncReload", "syncFlush"}]

CompanyTypeOK == /\ TypeOK
                 /\ companies \in [Companies -> Company \cup {Absent}]
                 /\ objects \in [Logos -> {"unused", "stored", "deleted"}]
                 /\ edit \in [Handlers -> Edit \cup {NoEdit}]
                 /\ seen \in [Handlers -> {"unread", "pending", "approved", "rejected"}]
                 /\ outpaced \subseteq Companies /\ overwritten \subseteq Ids

CompanyInit == /\ Init
               /\ companies = [c \in Companies |-> Absent]
               /\ objects = [k \in Logos |-> "unused"]
               /\ edit = [h \in Handlers |-> NoEdit]
               /\ seen = [h \in Handlers |-> "unread"]
               /\ outpaced = {} /\ overwritten = {}

-----------------------------------------------------------------------------
Step(h, step) == edit[h].step = step

Free(h) == pc[h] = "idle" /\ Step(h, "none")

\* The open requests of a company, looked up without a lock.
OpenFor(c) == {i \in Ids : IsOpen(i) /\ requests[i].payload.company = c}

\* TypeORM's save: the columns in which the entity differs from the row as it
\* is read again, and the row once these are written.
Dirty(entity, row) == {f \in DOMAIN row : entity[f] # row[f]}
Flushed(entity, dirty, row) == [f \in DOMAIN row |-> IF f \in dirty THEN entity[f] ELSE row[f]]

SetEdit(h, e) == edit' = [edit EXCEPT ![h] = e]
EndEdit(h) == SetEdit(h, NoEdit)

\* deleteObject never throws.
Delete(k) == objects' = [l \in Logos |-> IF l = k THEN "deleted" ELSE objects[l]]

-----------------------------------------------------------------------------
(* createCompany and updateCompany *)

\* The row first, since the request names it; the handler goes on to raise one.
CreateCompany(h, r, c, d) ==
  LET row == [status |-> "pending", details |-> d, logo |-> NoLogo] IN
  /\ Free(h) /\ companies[c] = Absent
  /\ companies' = [companies EXCEPT ![c] = row]
  /\ SetEdit(h, [op |-> "update", who |-> r, company |-> c, details |-> d, logo |-> Keep,
                 previous |-> NoLogo, entity |-> row, dirty |-> {}, open |-> Absent,
                 step |-> "submit"])
  /\ UNCHANGED <<vars, objects, seen, history>>

LoadCompany(h, r, c, d, k) ==
  /\ Free(h)
  /\ companies[c] # Absent
  /\ k # Keep => objects[k] = "stored"
  /\ SetEdit(h, [op |-> "update", who |-> r, company |-> c, details |-> d, logo |-> k,
                 previous |-> NoLogo, entity |-> companies[c], dirty |-> {}, open |-> Absent,
                 step |-> "open"])
  /\ UNCHANGED <<vars, companies, objects, seen, history>>

\* The loaded entity with the form's values assigned to it.
Filled(e) == [status |-> e.entity.status, details |-> e.details,
              logo |-> IF e.logo = Keep THEN e.entity.logo ELSE e.logo]

\* A pending request is a 409.  A live company is not touched: its proposal goes
\* straight to the framework.  Anything else is written to the row first.
FindOpenRequest(h) ==
  LET e == edit[h] IN
  /\ Step(h, "open")
  /\ \E i \in IF OpenFor(e.company) = {} THEN {Absent} ELSE OpenFor(e.company) :
       IF i # Absent /\ requests[i].status = "pending" THEN EndEdit(h)
       ELSE IF e.entity.status = "approved" THEN SetEdit(h, [e EXCEPT !.step = "submit", !.open = i])
       ELSE SetEdit(h, [e EXCEPT !.step = "reload", !.open = i, !.entity = Filled(e)])
  /\ UNCHANGED <<vars, companies, objects, seen, history>>

ReloadCompany(h) ==
  /\ Step(h, "reload")
  /\ SetEdit(h, [edit[h] EXCEPT !.step = "flush",
                                !.dirty = Dirty(edit[h].entity, companies[edit[h].company])])
  /\ UNCHANGED <<vars, companies, objects, seen, history>>

\* Late for company c: it is not in the state any more that was read of it.
Outpaced(c, read) == outpaced' = IF companies[c].status = read THEN outpaced ELSE outpaced \cup {c}

FlushCompany(h) ==
  LET e == edit[h] IN
  /\ Step(h, "flush")
  /\ companies' = [companies EXCEPT ![e.company] = Flushed(e.entity, e.dirty, @)]
  /\ SetEdit(h, [e EXCEPT !.step = IF e.op = "update" THEN "submit" ELSE "sync", !.dirty = {}])
  /\ Outpaced(e.company, e.entity.status)
  /\ UNCHANGED <<vars, objects, seen, overwritten>>

KindOf(e) == IF e.entity.status = "approved" THEN "update" ELSE "create"

\* buildPayload reads the company once more; a create has no "from" side.
PayloadFor(e) ==
  [kind |-> KindOf(e), company |-> e.company, details |-> e.details,
   logo |-> IF e.logo = Keep THEN companies[e.company].logo ELSE e.logo,
   current |-> IF KindOf(e) = "create" THEN NoLogo ELSE companies[e.company].logo]

\* A sent-back request is resubmitted, otherwise one is raised.
Submit(h) ==
  LET e == edit[h] IN
  /\ Step(h, "submit")
  /\ IF e.open = Absent THEN StartCreate(h, e.who, PayloadFor(e))
                        ELSE StartResubmit(h, e.who, e.open, PayloadFor(e))
  /\ EndEdit(h)
  /\ UNCHANGED <<companies, objects, seen, history>>

\* A statement fails, or nobody can approve companies: what was written stays.
AbandonEdit(h) == /\ edit[h] # NoEdit
                  /\ EndEdit(h)
                  /\ UNCHANGED <<vars, companies, objects, seen, history>>

-----------------------------------------------------------------------------
(* setLogo and syncLogoKey *)

\* For a live company the object is only staged: the caller puts its key in an edit.
UploadLogo(h, r, c, k) ==
  /\ Free(h)
  /\ companies[c] # Absent /\ objects[k] = "unused"
  /\ objects' = [objects EXCEPT ![k] = "stored"]
  /\ IF companies[c].status = "approved"
       THEN UNCHANGED edit
       ELSE SetEdit(h, [op |-> "logo", who |-> r, company |-> c, details |-> companies[c].details,
                        logo |-> k, previous |-> companies[c].logo,
                        entity |-> [companies[c] EXCEPT !.logo = k], dirty |-> {},
                        open |-> Absent, step |-> "reload"])
  /\ UNCHANGED <<vars, companies, seen, history>>

\* Fold the key into the open request, unless there is none or it has it already.
LoadRequest(h) ==
  LET e == edit[h] IN
  /\ Step(h, "sync")
  /\ \/ /\ \A i \in OpenFor(e.company) : requests[i].payload.logo = e.logo
        /\ EndEdit(h) /\ Delete(e.previous)
     \/ \E i \in OpenFor(e.company) :
          /\ requests[i].payload.logo # e.logo
          /\ SetEdit(h, [e EXCEPT !.step = "syncReload", !.open = i,
                                  !.entity = [requests[i] EXCEPT !.payload.logo = e.logo]])
          /\ UNCHANGED objects
  /\ UNCHANGED <<vars, companies, seen, history>>

ReloadRequest(h) ==
  /\ Step(h, "syncReload")
  /\ SetEdit(h, [edit[h] EXCEPT !.step = "syncFlush",
                                !.dirty = Dirty(edit[h].entity, requests[edit[h].open])])
  /\ UNCHANGED <<vars, companies, objects, seen, history>>

\* The UPDATE waits for a transaction that holds the row; then the replaced
\* logo is deleted.
FlushRequest(h) ==
  LET e == edit[h] IN
  /\ Step(h, "syncFlush")
  /\ rowLock[e.open] = Nobody
  /\ requests' = [requests EXCEPT ![e.open] = Flushed(e.entity, e.dirty, @)]
  /\ IF requests'[e.open].status = requests[e.open].status
       THEN UNCHANGED history
       ELSE overwritten' = overwritten \cup {e.open} /\ outpaced' = outpaced \cup {e.company}
  /\ EndEdit(h) /\ Delete(e.previous)
  /\ UNCHANGED <<timeline, approvers, locks, pc, job, companies, seen>>

-----------------------------------------------------------------------------
(* assertSubmittable, which reads the company before it looks for a clash *)

ReadCompany(h) ==
  /\ pc[h] = "check" /\ seen[h] = "unread"
  /\ seen' = [seen EXCEPT ![h] = companies[job[h].payload.company].status]
  /\ UNCHANGED <<vars, screens, history>>

\* A create request belongs to a company that was never approved, an update to a live one.
KindFits(h) == (job[h].payload.kind = "update") <=> (seen[h] = "approved")

\* The transaction is over and what it read is gone.
Forget(h) == seen' = [seen EXCEPT ![h] = "unread"]

\* Mutant: the kind of the request is not compared with the company.
CheckClashOnly(h) ==
  /\ seen[h] # "unread"
  /\ CheckDuplicates(h)
  /\ IF pc'[h] = "write" THEN UNCHANGED seen ELSE Forget(h)
  /\ UNCHANGED <<screens, history>>

\* Mutant: a second open request is not looked for.
CheckKindOnly(h) ==
  /\ pc[h] = "check" /\ seen[h] # "unread"
  /\ IF KindFits(h) THEN Goto(h, "write") /\ UNCHANGED <<db, locks, approvers, seen>>
                    ELSE Rollback(h) /\ Forget(h)
  /\ UNCHANGED <<screens, history>>

CheckSubmittable(h) ==
  /\ pc[h] = "check" /\ seen[h] # "unread"
  /\ IF KindFits(h) THEN CheckDuplicates(h) ELSE Rollback(h)
  /\ IF pc'[h] = "write" THEN UNCHANGED seen ELSE Forget(h)
  /\ UNCHANGED <<screens, history>>

\* Nothing holds the company between the check and the commit.
CommitSubmit(h) ==
  /\ \E i \in Ids : CommitCreate(h, i) \/ CommitResubmit(h, i)
  /\ Outpaced(job[h].payload.company, seen[h])
  /\ Forget(h)
  /\ UNCHANGED <<screens, overwritten>>

-----------------------------------------------------------------------------
(* applyDecision, in the transaction of the framework's decision *)

\* The proposal is written as it stands in the request.
ApproveCompany(h, i) ==
  LET p == requests[i].payload IN
  /\ CommitDecide(h, i, "approved")
  /\ companies' = [companies EXCEPT ![p.company] =
                     [status |-> "approved", details |-> p.details, logo |-> p.logo]]
  /\ UNCHANGED <<objects, edit, seen, history>>

\* Mutant: refusing an edit takes the working company off the catalog.
RejectAnyCompany(h, i) ==
  LET p == requests[i].payload IN
  /\ CommitDecide(h, i, "rejected")
  /\ companies' = [companies EXCEPT ![p.company].status = "rejected"]
  /\ UNCHANGED <<objects, edit, seen, history>>

RejectCompany(h, i) ==
  LET p == requests[i].payload IN
  /\ CommitDecide(h, i, "rejected")
  /\ companies' = IF p.kind = "create"
                    THEN [companies EXCEPT ![p.company].status = "rejected"] ELSE companies
  /\ UNCHANGED <<objects, edit, seen, history>>

\* decisionNotification, after commit: the logo that lost is deleted.
NotifyDecision(h) ==
  LET p == requests[job[h].id].payload IN
  /\ Notify(h)
  /\ job[h].event \in Decided /\ p.current # p.logo
  /\ Delete(IF job[h].event = "approved" THEN p.current ELSE p.logo)
  /\ UNCHANGED <<companies, edit, seen, history>>

NotifyOther(h) ==
  LET p == requests[job[h].id].payload IN
  /\ Notify(h)
  /\ job[h].event \notin Decided \/ p.current = p.logo
  /\ UNCHANGED <<screens, seen, history>>

-----------------------------------------------------------------------------
Screen(h) ==
  \/ \E r \in Requesters, c \in Companies :
        \/ \E d \in Details : CreateCompany(h, r, c, d)
        \/ \E d \in Details, k \in Logos \cup {Keep} : LoadCompany(h, r, c, d, k)
        \/ \E k \in Logos : UploadLogo(h, r, c, k)
  \/ FindOpenRequest(h) \/ ReloadCompany(h) \/ FlushCompany(h) \/ Submit(h) \/ AbandonEdit(h)
  \/ LoadRequest(h) \/ ReloadRequest(h) \/ FlushRequest(h)

\* The framework's own steps, and the requester's cancellation, which this type
\* has no hook for.
Framework(h) ==
  /\ UNCHANGED <<screens, seen, history>>
  /\ \/ TakeAdvisoryLock(h) \/ LockRow(h)
     \/ Free(h) /\ \E i \in Ids : \/ \E r \in Requesters : StartCancel(h, r, i)
                                  \/ \E e \in Employees : StartDecide(h, e, i) \/ StartSendBack(h, e, i)
     \/ \E i \in Ids : CommitCancel(h, i) \/ CommitSendBack(h, i)

FailTransaction(h) == Fail(h) /\ Forget(h) /\ UNCHANGED <<screens, history>>

CompanyRestart == /\ Restart
                  /\ edit' = [h \in Handlers |-> NoEdit]
                  /\ seen' = [h \in Handlers |-> "unread"]
                  /\ UNCHANGED <<companies, objects, history>>

CompanyNext ==
  \/ \E h \in Handlers :
        \/ Screen(h) \/ Framework(h) \/ FailTransaction(h)
        \/ ReadCompany(h) \/ CheckSubmittable(h) \/ CommitSubmit(h)
        \/ \E i \in Ids : ApproveCompany(h, i) \/ RejectCompany(h, i)
        \/ NotifyDecision(h) \/ NotifyOther(h)
  \/ \E s \in Scopes, E \in SUBSET Employees : SetApprovers(s, E) /\ UNCHANGED <<screens, seen, history>>
  \/ CompanyRestart

CompanySpec == CompanyInit /\ [][CompanyNext]_companyVars

-----------------------------------------------------------------------------
(* Properties *)

DecidedNow(i, verdict, c) ==
  /\ IsOpen(i) /\ requests[i].payload.company = c
  /\ requests'[i].status = verdict

\* A screen saves the company it read before a decision moved it.
SavesLate(h, c) ==
  /\ Step(h, "flush") /\ edit'[h] # edit[h]
  /\ edit[h].company = c /\ edit[h].entity.status # companies[c].status

Moved(c) == companies[c] # Absent /\ companies'[c] # companies[c]

\* Request i is approved and company c becomes what it proposes.
TakesProposal(i, c) ==
  /\ DecidedNow(i, "approved", c)
  /\ companies'[c] = [status |-> "approved", details |-> requests[i].payload.details,
                                            logo |-> requests[i].payload.logo]

\* A company becomes live only by the approval of a request about it, and then is
\* what that request proposes.  Its status changes otherwise, or a live company
\* changes at all, only by a decision; or by a save that comes too late and, where
\* that has happened, by the rejection of a first approval the company never needed
\* (Company.approval_status, updateCompany and applyDecision).
OnlyDecisionsMoveCompanies ==
  [][\A c \in Companies : Moved(c) =>
       /\ companies[c].status # "approved" /\ companies'[c].status = "approved" =>
            \E i \in Ids : TakesProposal(i, c)
       /\ \/ \E h \in Handlers : SavesLate(h, c)
          \/ /\ companies'[c].status # companies[c].status =>
                  \E i \in Ids : DecidedNow(i, companies'[c].status, c)
             /\ companies[c].status = "approved" =>
                  \E i \in Ids : \/ TakesProposal(i, c)
                                 \/ c \in outpaced /\ DecidedNow(i, "rejected", c)]_companies

\* A create request belongs to a company that was never approved, an update to
\* one that is live; otherwise rejecting it would take a working company off the
\* catalog (assertSubmittable, applyDecision).  So it is of every company for which
\* no save and no submit has come too late.
KindMatchesCompany ==
  \A i \in Ids :
    LET p == requests[i].payload IN
    IsOpen(i) /\ p.company \notin outpaced =>
      (p.kind = "update" <=> companies[p.company].status = "approved")

\* The invariant of the catalog: every row is well formed, and the open requests
\* fit the companies they are about.
CatalogInv == CompanyTypeOK /\ KindMatchesCompany

CompanyLifecycle == INSTANCE RequestLifecycle WITH
  ClaimSets <- {{}} \cup {{c} : c \in Companies},
  status <- [i \in Ids |-> StatusOf(i)],
  held <- [i \in Ids |-> IF Exists(i) /\ i \notin overwritten
                            THEN {requests[i].payload.company} ELSE {}]

\* A logo is folded into a request whose status has moved since it was read, and
\* the status that was read comes back with it; no other request moves.
SyncsLate(h) ==
  LET e == edit[h] IN
  /\ Step(h, "syncFlush") /\ edit'[h] # e
  /\ requests[e.open].status # e.entity.status /\ requests'[e.open].status = e.entity.status
  /\ \A i \in Ids \ {e.open} : requests'[i] = requests[i]

\* With uploads and edits going on around it the type still is the abstract
\* lifecycle, but for the folds of a logo that come too late: one open request per
\* company among those that no such fold has touched, and what was decided or
\* cancelled stays so, as the diagram above APPROVAL_REQUEST_STATUSES has it.
CompanyRequestsFollowLifecycle ==
  /\ CompanyLifecycle!Init
  /\ [][CompanyLifecycle!Next \/ \E h \in Handlers : SyncsLate(h)]_(CompanyLifecycle!lifecycle)

\* Only the logo that lost is deleted when a request is decided: what a company
\* row points at is in the bucket.
LogosAreStored ==
  \A c \in Companies : companies[c] # Absent /\ companies[c].logo # NoLogo =>
    objects[companies[c].logo] = "stored"
=============================================================================
