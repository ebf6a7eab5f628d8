SPECIFICATION ShopSpec
CONSTANTS
  Items = {"milk"}
  MaxStock <- MCMaxStock
  RestockInterval = 2
  MaxLag = 1
  MaxTime = 4
  MaxFailures = 1
INVARIANTS
  TimerIffShort
  StuckOnlyByTheFarm
PROPERTY NeverPostponed
CHECK_DEADLOCK FALSE
