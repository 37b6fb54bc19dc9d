SPECIFICATION Spec
CONSTANTS
  Staff = {p1, p2}
  Decider = {p1}
  LeadId = {l1, l2}
  Mobile = {m1}
  MaxEvents = 2
  None = None
PROPERTIES
  DecisionStands
SYMMETRY Symmetry
CHECK_DEADLOCK FALSE
