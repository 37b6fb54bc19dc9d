SPECIFICATION DeskSpec
CONSTANTS
  k1 = k1  u1 = u1  u2 = u2  d1 = d1  d2 = d2  p1 = p1  p2 = p2  x1 = x1  x2 = x2
  Admin = {p1, p2}
  Key = {k1}
  Edit <- MCEdit
  Same = Same
  User = {u1, u2}
  Device = {d1, d2}
  Holder <- MCHolder
  MaxSecret = 4
  Nobody = Nobody
  Call = {y1}
  Books <- MCBooks
  Sync = {p1, p2}
  MaxReports = 3
  NoBook = NoBook
  Receipt = {x1, x2}
  Clerk = {p1, p2}
  Monthly = 7
  MaxLogged = 2
  Staff = {u1}
  Editor = {p1, p2}
  Floor = {y1}
  Unassigned = Unassigned
  Absent = Absent
  Author = {p1, p2}
  Entry = {y1}
  MaxTyped = 3
  MaxSaves = 2
  Attachment = {x1, x2}
  Letter = {u1, u2}
  Tab = {p1, p2}
  MaxPending = 1
  NoLetter = NoLetter
  Upload = {x1, x2, x3}
  Extension = {"pdf", "webp"}
  Desk = {p1, p2}
  Mobile = {x1, x2}
  MaxRows = 2
  Importer = {p1, p2}
  MaxByHand = 1
  Planner = {p1, p2}
  Section = {x3, x4}
  AlwaysSend = {x3}
  MaxWritten = 2
  MaxRevision = 2
  Detail = {x3, x4}
  Fragile = {x4}
  Requester = {p1, p2}
  MaxWrites = 2
  MaxEdits = 2
  Omitted = Omitted
  Blank = Blank
  Booker = {p1, p2}
  Day = {x1, x2}
  Slot = {x1, x2}
  Nil = Nil
  Window = 2
  MaxEnquiries = 2
INVARIANTS
  EditsTakeEffect
  DeadSecretsStayDead
  AckedLoggedOnce
  CountsWhatItLogs
  
  CountsAreTrue
  TargetsCoverTheMonth
  DeviceFixYields
  FloorsAsSent
  NothingTypedIsLost
  DeliversItsFiles
  DocumentsHaveTheirObjects
  OneImportedPerNumber
  VisitIsConfirmed
PROPERTIES
  NoSaveGoesBack
  SavesKeepOutOfTheWay
  EditsUndoNothing
SYMMETRY Symmetry
CHECK_DEADLOCK FALSE
