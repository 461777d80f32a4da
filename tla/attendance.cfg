SPECIFICATION AttendanceSpec
CONSTANTS
  asha = asha
  first = first
  second = second
  l1 = l1
  Students = {asha}
  Sessions = {s1, s2}
  Slots = {first, second}
  Subjects = {maths, physics}
  Teachers = {t1, t2}
  Leaves = {l1}
  Handlers = {h1, h2}
  MayOverlap = {"rollup", "leave"}
  StudentOf <- MCStudentOf
  RangeOf <- MCRangeOf
CONSTRAINT MCBounded
SYMMETRY MCSymmetry
INVARIANTS
  AttendanceInv
  RollupIsProjection
  AbsencesMatchLeaves
PROPERTIES
  PresenceIsTheTeachers
