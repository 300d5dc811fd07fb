SPECIFICATION Spec
CONSTANTS
  Client = {k1}
  Plan = {p1, p2}
  Run = {r1, r2}
  Editor = {e1}
  Periodicity = {1}
  MonthDays = 1
  LastDay = 1
  None = None
SYMMETRY Symmetry
INVARIANT BilledOnce
