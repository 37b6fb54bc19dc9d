SPECIFICATION Spec
CONSTANTS
  Staff = {s1, s2}
  Request = {q1, q2}
  RnrLimit = 1
  Mishaps = {}
  None = None
PROPERTIES
  TransferKeepsOwner
SYMMETRY Symmetry
