SPECIFICATION WorkerSpec
CONSTANTS
  Workers = {"w1", "w2"}
  RefundIds = {1, 2}
  Stalls = FALSE
  MaxAttempts = 4
  MaxCrashes = 1
  j1 = j1 j2 = j2 j3 = j3 None = None
  Jobs = {j1, j2, j3}
  Kind <- KindOf
  Addressed = {j1, j3}
  MaxClaims = 3
  MaxStalls = 1
CHECK_DEADLOCK FALSE
INVARIANTS TypeOK RefundsExact ConfirmationsSafe
PROPERTIES RefundsResolve ConfirmationsResolve
