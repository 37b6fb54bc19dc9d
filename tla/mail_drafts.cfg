SPECIFICATION Spec
CONSTANTS
  MaxRows = 3
  Slot = {s1}
  AutoSlot = {}
  Content = {a, b, n}
  FirstContent = a
  Incomplete = {}
  Unaddressed = {n}
  MaxAttempts = 2
  FaultKind <- MCFaultKind
  MaxFaults <- DraftFaults
  Dispatcher = {d1}
  Enabled = FALSE
  Credentialed = {s1}
  DailyCap = 1
  BatchSize = 2
  Clerk = {c1, c2}
  Trigger = {t1}
  MaxEdits = 3
  MaxGrants = 2
INVARIANTS
  CurrentIsSuggested
SYMMETRY Symmetry
