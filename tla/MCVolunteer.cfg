SPECIFICATION Spec
CONSTANTS
  Users = {u1, u2, u3}
  Roles = {greeter, cook}
  Capacities = {1, 2}
  Dates = {1, 2, 3}
  MaxTime = 3
SYMMETRY Symmetry
CHECK_DEADLOCK FALSE
INVARIANTS
  TypeOK
  PlacesBounded
  NoTimeInvented
PROPERTIES
  AttendanceKept
