--------------------------- MODULE MCAuthSessions ---------------------------
(***************************************************************************)
(* Small instances of AuthSessions.                                        *)
(***************************************************************************)
EXTENDS AuthSessions, TLC

\* Bound: four refresh tokens in all.
MCBounded == \A s \in Sids : \A t \in Sids \ {s} : minted[s] + minted[t] <= 4

MCSymmetry == Permutations(Sids) \cup Permutations(Handlers) \cup Permutations(Devices)
=============================================================================
