SPECIFICATION FairSpec
CONSTANTS
  Guests = {g1, g2}
  Zones = {z1}
  Passcodes = {"right", "wrong"}
  AdminPasscode = "right"
  NoGuest = NoGuest
  NoZone = NoZone
  Panels = {"quest", "marker"}
  Questions = {"q1", "q2", "q3"}
  Options = {0, 1}
  CorrectIndex <- MCCorrectIndex
  OracleColors = {"blue", "red"}
  RED_TRIAL_SEQUENCE <- MCSequence
  PassMark = 2
  BURGER_PRICE_MEOWS = 1
  ORACLE_REWARD_MEOWS = 1
  MaxMeows = 1
  Unset = Unset
INVARIANTS
  SessionCoherent
  OnlyDeadEndIsSkipping
PROPERTIES
  EarnedIsSpendable
