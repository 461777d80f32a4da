---------------------------- MODULE MCTimetables ----------------------------
(***************************************************************************)
(* A small instance of Timetables: an ordinary class, an elective of two   *)
(* cohorts and a course of the timetable's own.                            *)
(***************************************************************************)
EXTENDS Timetables, TLC

CONSTANTS maths, elective, club, m, e1, e2

MCRowsOf == [c \in Classes |-> IF c = maths THEN {m} ELSE IF c = elective THEN {e1, e2} ELSE {}]
MCFirst == <<1, 2>>
One(class, span) == [class |-> class, span |-> span]
\* A class of two periods, and a week of everything.
MCGrids ==
  { <<1, 1>> :> One(maths, 2),
    (<<1, 1>> :> One(elective, 1)) @@ (<<1, 2>> :> One(maths, 1)) @@ (<<2, 1>> :> One(club, 2)) }
MCSymmetry == Permutations(Templates) \cup Permutations(Handlers) \cup Permutations({e1, e2})
=============================================================================
