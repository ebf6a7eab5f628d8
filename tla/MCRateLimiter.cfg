SPECIFICATION RateSpec
CONSTANTS
  Slots = {s1, s2}
  Clients = {c1, c2}
  Admins = {a1}
  Limits = {0, 1}
  Windows <- MCWindows
  FirstLimit = 1
  FirstWindow = 1
  MaxRequests = 5
  MaxClock = 4
  Omitted = Omitted
  NoClient = NoClient
INVARIANTS
  BurstBound
  FairRefusal
SYMMETRY LimiterSymmetry
\* When all requests are answered and the clock has run out nothing is left to do.
CHECK_DEADLOCK FALSE
