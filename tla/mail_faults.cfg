SPECIFICATION Spec
CONSTANTS
  MaxRows = 1
  Slot = {s1}
  AutoSlot = {}
  Content = {a}
  FirstContent = a
  Incomplete = {}
  Unaddressed = {}
  MaxAttempts = 2
  FaultKind <- MCFaultKind
  MaxFaults <- AllFaults
  Dispatcher = {d1, d2}
  Enabled = TRUE
  Credentialed = {s1}
  DailyCap = 1
  BatchSize = 2
  Clerk = {c1, c2}
  Trigger = {t1}
  MaxEdits = 1
  MaxGrants = 2
INVARIANTS
  NoCopyWithoutGrant
  SentWasAccepted
PROPERTIES
  KeepsPromise
SYMMETRY Symmetry
