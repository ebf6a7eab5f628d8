SPECIFICATION FairSpec
CONSTANTS
  BrowserStreams = {1, 2, 3}
  Streams <- MCStreams
  Credentials <- MCCredentials
  Configured <- MCConfigured
  Passcodes = {"right", "wrong"}
  AdminPasscode = "right"
  Bodies <- MCBodies
  MaxPublished = 2
  MaxDrops = 1
  NoToken = NoToken
  BACKOFF_INITIAL_MS = 1
  BACKOFF_MAX_MS = 2
  MAX_EVENTS = 1
  Zones = {"beach"}
  MaxMounts = 2
  None = None
INVARIANTS
  OneStream
  NoGap
PROPERTIES
  EventuallyLive
  AtMostOnceInOrder
\* After the last visit and the last event nothing is left to happen.
CHECK_DEADLOCK FALSE
