SPECIFICATION RulesSpec
CONSTANTS
  Day = {1, 2}
  Cents = {0, 1, 3}
  MaxCharges = 3
  MaxSources = 3
  FirstYear = 2023
  LastYear = 2030
  LastWatched = 100
  Amounts = {0, 1, 2}
  Dates = {0, 1}
  GuardMs = 2
  MaxRequests = 3
  MaxOpenings = 2
  Client = {k}
  Charge = {c1, c2}
  Payment = {p1}
  Reason = {w}
  None = None
  Amount = {1, 2}
  Due = {c1, c2}
  LastDay = 3
  MaxWriteOffs = 2
INVARIANT FirstInFirstOut
INVARIANT AllAgreeOnAllocation
INVARIANT DeadlinesHold
INVARIANT NoDebtIsHidden
INVARIANT LedgerPageIsExact
INVARIANT ClosingIsAsItStood
INVARIANT DialogPaysOnce
PROPERTY UrgencyOnlyGrows
CHECK_DEADLOCK FALSE
