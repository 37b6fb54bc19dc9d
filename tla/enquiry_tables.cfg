SPECIFICATION Spec
CONSTANTS
  Staff = {p1, p2}
  Decider = {p1}
  LeadId = {l1, l2}
  Mobile = {m1, m2}
  MaxEvents = 2
  None = None
INVARIANTS
  RecordsKept
  OneLeadPerCustomer
PROPERTIES
  OnlyConvertOverwrites
  OwnerIsTold
SYMMETRY Symmetry
CHECK_DEADLOCK FALSE
