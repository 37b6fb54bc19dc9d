SPECIFICATION Spec
CONSTANTS
  MaxRows = 1
  Slot = {s1, s2}
  AutoSlot = {s1, s2}
  Content = {a, b}
  FirstContent = a
  Incomplete = {b}
  Unaddressed = {}
  MaxAttempts = 2
  FaultKind <- MCFaultKind
  MaxFaults <- RetentionFaults
  Dispatcher = {d1}
  Enabled = TRUE
  Credentialed = {s1}
  DailyCap = 1
  BatchSize = 2
  Clerk = {c1, c2}
  Trigger = {t1}
  MaxEdits = 1
  MaxGrants = 3
INVARIANTS
  AttemptsBounded
SYMMETRY Symmetry
