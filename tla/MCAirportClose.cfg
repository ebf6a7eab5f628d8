SPECIFICATION Spec
CONSTANTS
  Arrivals = {"mum", "kid"}
  Surname <- MCSurname
  Minor <- MCMinor
  Rank <- MCRank
  EUPassport = {}
  Gates = {"all1", "all2", "again"}
  DefaultGates = {"all1", "all2"}
  Id <- MCId
  GateType <- MCGateType
  Closers = {c1, c2}
  MaxRestarts = 0
  NoGate = NoGate
  NoArrival = NoArrival
INVARIANTS
  QueuedOnce
  MinorsEscorted
  RankOrder
  LastGateOnlyRaced
SYMMETRY CloserSymmetry
\* When admins have closed every gate nothing is left to run.
CHECK_DEADLOCK FALSE
