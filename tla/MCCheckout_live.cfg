CONSTANTS
  u1 = u1 u2 = u2 k1 = k1 k2 = k2 r1 = r1 r2 = r2 ta = ta tb = tb
  Users = {u1, u2}
  Keys = {k1}
  Requests = {r1}
  Tickets = {ta}
  Carts <- SingleSeat
  MaxTickets = 2
  Quantities = {1, 2}
  Prices = {0, 1}
  HoldTime = 1
  MaxTime = 1
  EndDates = {1, 2}
SPECIFICATION FairSpec
PROPERTIES ImplementsSale PendingResolves PaidResolves
