-------------------------- MODULE RequestLifecycle --------------------------
(***************************************************************************)
(* What the approval framework promises, without handlers, transactions or *)
(* locks: every request walks the diagram drawn above                      *)
(* APPROVAL_REQUEST_STATUSES (requests/entities/approval-request.entity.ts)*)
(* in atomic steps, and while it is open - pending or sent back - it is    *)
(* the only request holding its claims (a profile field, a company, a      *)
(* stretch of leave).  A request that was resubmitted through the route of *)
(* another type holds nothing.  ApprovalRequests is shown to implement     *)
(* this, and CompanyApprovals up to the saves it singles out.              *)
(***************************************************************************)

CONSTANTS Ids,       \* request ids
          ClaimSets  \* the sets of items a request can hold while it is open

VARIABLES status,    \* status[i]: where request i is, "absent" before it is raised
          held       \* held[i]: the items it was last submitted for

lifecycle == <<status, held>>

Open == {"pending", "sent_back"}
Decided == {"approved", "rejected"}

\* No other open request holds an item of S.
Free(i, S) == \A j \in Ids \ {i} : status[j] \in Open => S \cap held[j] = {}

Init == /\ status = [i \in Ids |-> "absent"]
        /\ held = [i \in Ids |-> {}]

Raise(i, S) == /\ status[i] = "absent"
               /\ Free(i, S)
               /\ status' = [status EXCEPT ![i] = "pending"]
               /\ held' = [held EXCEPT ![i] = S]

Resubmit(i, S) == /\ status[i] = "sent_back"
                  /\ Free(i, S)
                  /\ status' = [status EXCEPT ![i] = "pending"]
                  /\ held' = [held EXCEPT ![i] = S]

Decide(i, verdict) == /\ status[i] = "pending"
                      /\ status' = [status EXCEPT ![i] = verdict]
                      /\ UNCHANGED held

SendBack(i) == /\ status[i] = "pending"
               /\ status' = [status EXCEPT ![i] = "sent_back"]
               /\ UNCHANGED held

Cancel(i) == /\ status[i] \in Open
             /\ status' = [status EXCEPT ![i] = "cancelled"]
             /\ UNCHANGED held

Next == \E i \in Ids :
          \/ \E S \in ClaimSets : Raise(i, S) \/ Resubmit(i, S)
          \/ \E verdict \in Decided : Decide(i, verdict)
          \/ SendBack(i)
          \/ Cancel(i)

Spec == Init /\ [][Next]_lifecycle
=============================================================================
