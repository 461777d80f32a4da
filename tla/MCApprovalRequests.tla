------------------------ MODULE MCApprovalRequests ------------------------
(***************************************************************************)
(* Small instances of ApprovalRequests.  "phone" and "both" are profile    *)
(* updates, under one lock key as those of one student are; "both" claims  *)
(* two items, one of them the item of "phone".  "monday" is an application *)
(* for leave, whose request the profile route can be given too.            *)
(***************************************************************************)
EXTENDS ApprovalRequests, TLC

CONSTANTS profile, leave, batch

MCTypes == {"profile_update", "leave_apply"}
MCOpenRoutes == {"profile_update"}
MCPayloads == {"phone", "both", "monday"}
MCPayloadsOne == {"phone"}

MCTypeOf == [c \in Payloads |-> IF c = "monday" THEN "leave_apply" ELSE "profile_update"]
MCClaimsOf == [c \in Payloads |-> IF c = "both" THEN {"email", "phone"} ELSE {c}]

MCLockKeys == {profile, leave}
MCLockKey == [c \in Payloads |-> IF c = "monday" THEN leave ELSE profile]

MCScopes == {batch}
MCRouteOf == [r \in Requesters |-> batch]
MCMaySubmit == [r \in Requesters |-> Payloads]

MCSymmetry == Permutations(Ids) \cup Permutations(Handlers) \cup Permutations(Requesters)
=============================================================================
