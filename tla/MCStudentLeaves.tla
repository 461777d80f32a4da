-------------------------- MODULE MCStudentLeaves --------------------------
(***************************************************************************)
(* Small instances of StudentLeaves: a morning and an afternoon, which are *)
(* apart, and the day that contains both.                                  *)
(***************************************************************************)
EXTENDS StudentLeaves, TLC

CONSTANTS morning, afternoon, group

MCSlots == {morning, afternoon}
MCRanges == {{morning}, {afternoon}, {morning, afternoon}}

MCTypes == {"leave_apply", "leave_cancel", "profile_update"}
MCOpenRoutes == {"profile_update"}
MCPayloads == Applications \cup Cancellations \cup ProfileUpdates
MCTypeOf == [c \in Payloads |-> c.type]
MCClaimsOf == [c \in Payloads |-> LeaveClaims(c)]
MCLockKeys == {LeaveLockKey(c) : c \in Payloads}
MCLockKey == [c \in Payloads |-> LeaveLockKey(c)]
MCMaySubmit == [r \in Requesters |-> {c \in Payloads : c.student = r}]

MCScopes == {group}
MCRouteOf == [r \in Requesters |-> group]

MCSymmetry == Permutations(Ids) \cup Permutations(Handlers) \cup Permutations(MCSlots)
=============================================================================
