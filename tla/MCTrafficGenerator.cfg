SPECIFICATION TrafficSpec
CONSTANTS
  newcomer = newcomer
  resident = resident
  Loops = {l1, l2}
  SyntheticGuests = {newcomer, resident}
  SeedStage <- MCSeedStage
  MaxReservations = 2
  MaxMounts = 2
  MaxFaults = 1
  MaxSteps = 2
SYMMETRY LoopSymmetry
INVARIANTS
  BeachGuestsHaveRooms
  NothingLeaks
CHECK_DEADLOCK FALSE
