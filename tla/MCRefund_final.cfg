SPECIFICATION Spec
CONSTANTS
  Workers = {"w1", "w2"}
  RefundIds = {1, 2}
  Stalls = FALSE
  MaxAttempts = 4
  MaxCrashes = 1
CHECK_DEADLOCK FALSE
PROPERTIES
  RefundedIsFinal
