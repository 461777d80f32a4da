-------------------------- MODULE MCDriveStudents --------------------------
EXTENDS DriveStudents, TLC
MCSymmetry == Permutations(Students) \cup Permutations(Requests)
=============================================================================
