CONSTANTS
  u1 = u1 u2 = u2 k1 = k1 k2 = k2 r1 = r1 r2 = r2 ta = ta tb = tb
  Users = {u1}
  Keys = {k1, k2}
  Requests = {r1, r2}
  Tickets = {ta}
  Carts <- OneTypeCarts
  MaxTickets = 2
  Quantities = {2}
  Prices = {0, 1}
  HoldTime = 1
  MaxTime = 1
  EndDates = {2}
SYMMETRY Symmetry
SPECIFICATION Spec
INVARIANT RequestsSafe
PROPERTY RequestsKept
