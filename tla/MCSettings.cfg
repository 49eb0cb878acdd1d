SPECIFICATION Spec
CONSTANTS
  Keys <- MCKeys
  FirstConfig <- MCFirstConfig
  Sizes <- MCSizes
  OtherConfigs <- MCOtherConfigs
  MaxEvents = 2
INVARIANTS
  SettledIsTrue
  OnlyTheUserWrites
PROPERTIES
  ComesToRest
  LastEditLands
CHECK_DEADLOCK FALSE
