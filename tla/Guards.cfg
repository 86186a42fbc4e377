SPECIFICATION Spec
CONSTANTS
  Logins = {x1, x2}
  MaxAttempts = 3
  Processes = {x1, x2}
  Limit = 2
  Calls = {x1, x2, x3}
  Threshold = 3
  Retries = 2
  FirstYear = 2027
  FirstWeekday = 4
  Years = 2
  FromDay = 363
  ToDay = 427
  Rates = {999, 2200000}
  Candidates <- Consultants
  Offers <- Riyals
  Durations = {2}
  OneOffs = {0, 119, 123457}
INVARIANTS
  GuardsTypeOK
  CalendarHolds
  ClosedHasRoom
  OwedPasswordFirst
  ScoreHolds
PROPERTIES
  LockoutEnds
  GuessingStops
  RefusedComesBack
  ManagementObserves
  GoodNewsNeverHurts
CHECK_DEADLOCK FALSE
