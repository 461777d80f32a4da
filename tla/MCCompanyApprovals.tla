------------------------- MODULE MCCompanyApprovals -------------------------
(***************************************************************************)
(* Small instances of CompanyApprovals.                                    *)
(***************************************************************************)
EXTENDS CompanyApprovals, Functions, TLC

CONSTANTS manageCompanies

MCTypes == {"company_approval"}
MCPayloads == CompanyPayloads
MCTypeOf == [p \in Payloads |-> "company_approval"]
MCClaimsOf == [p \in Payloads |-> {p.company}]
MCLockKeys == Companies
MCLockKey == [p \in Payloads |-> p.company]
MCMaySubmit == [r \in Requesters |-> Payloads]
MCScopes == {manageCompanies}
MCRouteOf == [r \in Requesters |-> manageCompanies]

\* Bound: somebody may approve companies throughout; requests_claims covers the
\* times when nobody does.  And four events in all.
MCBounded == /\ \A s \in Scopes : approvers[s] # {}
             /\ FoldFunction(LAMBDA events, n : Len(events) + n, 0, timeline) <= 4

MCSymmetry == Permutations(Ids) \cup Permutations(Handlers) \cup Permutations(Details)
                \cup Permutations(Logos)
=============================================================================
