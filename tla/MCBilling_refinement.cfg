SPECIFICATION Spec
CONSTANTS
  Client = {k1, k2}
  Charge = {c1, c2}
  Payment = {p1}
  Request = {r1, r2}
  Amount = {1, 2}
  Body <- MCBody
  Reason = {w1, w2}
  None = None
SYMMETRY Symmetry
INVARIANT SameClient
PROPERTY ImplementsLedger
