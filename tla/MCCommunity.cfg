SPECIFICATION CommunitySpec
CONSTANTS
  x = x y = y u1 = u1 u2 = u2 None = None Absent = Absent
  Users = {x, y, u1, u2}
  DayLength = 4
  Settings <- TwoSchedules
  MaxTime = 8
SYMMETRY Symmetry
CHECK_DEADLOCK FALSE
INVARIANTS TypeOK MealsBounded WindowsPaced PassInHours NoMealStranded ScannerSafe CarpoolSafe EventsSafe FeedSafe ProfileSafe
PROPERTIES PassKept
