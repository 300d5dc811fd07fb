SPECIFICATION FairSpec
CONSTANTS
  Client = {c1}
  Catalog = {m}
  Annual = {}
  Custom = {}
  Generation = {g1}
  Editor = {}
  YearLength = 2
  Years = 2
  Status = {"PENDING", "DONE"}
  ValidFrom = 1
  MaxChanges = 2
  MaxRows = 1
  None = None
PROPERTY RetractsForwardOnly
PROPERTY DueIsThere
PROPERTY LeftoversGo
