SPECIFICATION DutySpec
CONSTANTS
  i1 = i1  i2 = i2  p1 = p1
  Submission = {i1, i2}
  Person = {p1, p2}
  Unknown = Unknown
  Caller = {c1, c2}
  View = {v1, v2}
  MaxSize = 2
  MaxMoves = 3
  Notifier = {r1, r2}
  Plain = {r3, r4}
  PoolSize = 2
  MaxNotices = 2
INVARIANTS
  ListsAreTheAuthors
  ServedOnce
  ShowsWhatItSays
PROPERTIES
  LocationsArrive
  EveryCallEnds
  RestsOnARealPage
  RequestsEnd
CHECK_DEADLOCK FALSE
