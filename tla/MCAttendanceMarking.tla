------------------------ MODULE MCAttendanceMarking ------------------------
(***************************************************************************)
(* A small instance of AttendanceMarking: one student, two periods, and a  *)
(* leave for the first of them.                                            *)
(***************************************************************************)
EXTENDS AttendanceMarking, TLC

CONSTANTS asha, first, second, l1

MCStudentOf == [l \in Leaves |-> asha]
MCRangeOf == [l \in Leaves |-> {first}]

\* Bound: one kind of overlap in a behaviour.  What a property allows, it allows
\* of each kind by itself.
MCBounded == Cardinality(overlapped) <= 1

MCSymmetry == Permutations(Sessions) \cup Permutations(Handlers)
                \cup Permutations(Teachers) \cup Permutations(Subjects)
=============================================================================
