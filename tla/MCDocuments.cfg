SPECIFICATION DocumentsSpec
CONSTANTS
  Client = {c1}
  Catalog = {m}
  Annual = {}
  Custom = {}
  Generation = {g1}
  Editor = {}
  YearLength = 1
  Years = 1
  Status = {"PENDING", "DONE"}
  ValidFrom = 1
  MaxChanges = 2
  MaxRows = 1
  None = None
  Attachment = {a1, a2}
  Transfer = {t1, t2}
  Stored = {s1}
  Keep = 1
  LastNight = 3
SYMMETRY Symmetry
INVARIANT RowsAreBacked
INVARIANT OkBackupRestores
PROPERTY ImplementsStore
PROPERTY AnArchiveIsKept
CHECK_DEADLOCK FALSE
