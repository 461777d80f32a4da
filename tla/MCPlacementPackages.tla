------------------------ MODULE MCPlacementPackages ------------------------
(* Small instances of PlacementPackages. *)
EXTENDS PlacementPackages, TLC

\* Four numbers, of which the second is no whole hundredth: 0, 0.008, 0.01 and 0.02.
MCRounded == [a \in Amounts |-> IF a = 1 THEN 2 ELSE a]

MCSymmetry == Permutations(Profiles)
=============================================================================
