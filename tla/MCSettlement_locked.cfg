SPECIFICATION Spec
CONSTANTS
  r1 = r1 r2 = r2 b1 = b1 b2 = b2
  Count = 2
  Donations = {2}
  payable <- EqualShares
  Cap = 3
  Profiles <- SomeProfiles
  Requests = {r1, r2}
  Batches = {b1}
SYMMETRY Symmetry
PROPERTIES ReservedIsLocked
