SPECIFICATION FairSpec
CONSTANTS
  Client = {k1, k2}
  Plan = {p1, p2}
  Run = {r1}
  Editor = {e1}
  Periodicity = {1}
  MonthDays = 1
  LastDay = 1
  None = None
PROPERTY BegunIsBilled
