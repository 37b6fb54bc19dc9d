SPECIFICATION Spec
CONSTANTS
  Staff = {s1, s2}
  Request = {q1, q2}
  RnrLimit = 1
  Mishaps = {"crash", "delete"}
  None = None
INVARIANTS
  TrailNamesOwner
PROPERTIES
  ClaimTakesUnowned
SYMMETRY Symmetry
CHECK_DEADLOCK FALSE
