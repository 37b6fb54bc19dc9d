SPECIFICATION RaceSpec
CONSTANTS
  MaxRows = 3
  Slot = {s1, s2}
  AutoSlot = {s2}
  Content = {a, b, e}
  FirstContent = a
  Incomplete = {}
  Unaddressed = {}
  MaxAttempts = 1
  FaultKind <- MCFaultKind
  MaxFaults <- NoFaults
  Dispatcher = {d1, d2}
  Enabled = TRUE
  Credentialed = {s1, s2}
  DailyCap = 1
  BatchSize = 2
  Clerk = {c1}
  Trigger = {t1, t2}
  MaxEdits = 3
  MaxGrants = 1
INVARIANTS
  OpenDraftsBounded
  CapOvershootBounded
SYMMETRY RaceSymmetry
CHECK_DEADLOCK FALSE
