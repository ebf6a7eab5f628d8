SPECIFICATION Spec
CONSTANTS
  Activities = {a1, a2}
  Visitors = {v1, v2}
  Requests = {r1, r2, r3}
  Capacities = {1, 2}
  MaxAdmin = 2
  NoActivity = NoActivity
  NoVisitor = NoVisitor
INVARIANTS
  WithinCapacity
  BookedAreCheckedIn
  SerialBookings
  OneActivityUnlessHasty
SYMMETRY BeachSymmetry
