CONSTANTS
  u1 = u1 u2 = u2 k1 = k1 k2 = k2 r1 = r1 r2 = r2 ta = ta tb = tb
  Users = {u1, u2}
  Keys = {k1}
  Requests = {r1}
  Tickets = {ta, tb}
  Carts <- TwoTypeCarts
  MaxTickets = 2
  Quantities = {1, 2}
  Prices = {1}
  HoldTime = 1
  MaxTime = 2
  EndDates = {2}
SYMMETRY Symmetry
SPECIFICATION Spec
INVARIANTS TypeOK NoOversell SoldMatchesIssued OutcomeConsistent
PROPERTIES HoldHonoured
