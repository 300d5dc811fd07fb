SPECIFICATION Spec
CONSTANTS
  Client = {k1}
  Plan = {p1, p2, p3}
  Run = {r1}
  Editor = {e1, e2}
  Periodicity = {0, 1, 3}
  MonthDays = 2
  LastDay = 2
  None = None
SYMMETRY Symmetry
INVARIANT IInv
INVARIANT OnePlanEachDay
INVARIANT BilledOnce
