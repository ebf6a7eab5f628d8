SPECIFICATION FairSpec
CONSTANTS
  Arrivals = {"mum", "kid", "fast"}
  Surname <- MCSurname
  Minor <- MCMinor
  Rank <- MCRank
  EUPassport = {}
  Gates = {"all1", "dyn"}
  DefaultGates = {"all1"}
  Id <- MCId
  GateType <- MCGateType
  Closers = {}
  MaxRestarts = 1
  NoGate = NoGate
  NoArrival = NoArrival
INVARIANTS
  NobodyForgotten
  InHandNotQueued
  OneEventAfterCommit
PROPERTIES
  Lifecycle
  AdultsProcessed
  FamiliesProcessed
