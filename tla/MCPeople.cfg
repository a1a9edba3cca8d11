SPECIFICATION PeopleSpec
CONSTANTS
  x = x y = y u1 = u1 u2 = u2 None = None Absent = Absent
  Donors = {"u"}
  Calls = {x, y}
  Payments = {"pay"}
  Keys = {"k"}
  NoKey = None
  Amounts = {400, 500, 600}
  Minimum = 500
  FoodBankEvent = TRUE
  Channels = {"WEB", "APP"}
  Providers = {"PAYSTACK", "ALAT_TRANSFER"}
  MaxRetries = 2
SYMMETRY Symmetry
CHECK_DEADLOCK FALSE
INVARIANTS SignInSafe KycSafe DonationsSafe
