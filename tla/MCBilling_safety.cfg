SPECIFICATION Spec
CONSTANTS
  Client = {k1}
  Charge = {c1, c2}
  Payment = {p1, p2}
  Request = {r1, r2}
  Amount = {1, 2}
  Body <- MCBody
  Reason = {w1}
  None = None
SYMMETRY Symmetry
INVARIANTS
  IInv
  NoOverAllocation
  NoOverdraw
  
PROPERTY ForgivenDebtTakesNoMoney
