SPECIFICATION FairSpec
CONSTANTS
  MaxRows = 2
  Slot = {s1, s2}
  AutoSlot = {s1, s2}
  Content = {a}
  FirstContent = a
  Incomplete = {}
  Unaddressed = {}
  MaxAttempts = 2
  FaultKind <- MCFaultKind
  MaxFaults <- CrashFaults
  Dispatcher = {d1}
  Enabled = TRUE
  Credentialed = {s1, s2}
  DailyCap = 1
  BatchSize = 2
  Clerk = {}
  Trigger = {t1}
  MaxEdits = 2
  MaxGrants = 2
PROPERTIES
  QueueDrains
