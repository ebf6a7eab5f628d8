SPECIFICATION FairSpec
CONSTANTS
  Requests = {r1, r2, r3}
  Keys = {k, s}
  Streams = {s}
  TTL = 1
  MaxTime = 2
  MaxVersion = 2
  NoKey = NoKey
  NoFlight = NoFlight
  NoEntry = NoEntry
  NoAnswer = NoAnswer
  Streaming = Streaming
  Failed = Failed
INVARIANTS
  SingleFlight
  FreshEnough
PROPERTIES
  CacheMovesForward
  AllAnswered
\* When every request is answered nothing is left to do.
CHECK_DEADLOCK FALSE
