SPECIFICATION Spec
CONSTANTS
  ann1 = ann1 ann2 = ann2 bob1 = bob1
  Orders = {ann1, ann2, bob1}
  Users = {"ann", "bob"}
  buyer <- OrderBuyers
  Scanners = {"door"}
  NoLimit = NoLimit
  Capacities = {1, 2}
  Fees = {0, 1}
  HoldTime = 1
  EndDate = 2
  MaxTime = 2
SYMMETRY Symmetry
CHECK_DEADLOCK FALSE
PROPERTIES
  EditKeepsBooked
