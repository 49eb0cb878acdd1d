SPECIFICATION Spec
CONSTANTS
  Keys <- MCKeys
  FirstConfig <- MCFirstConfig
  Sizes <- MCSizes
  OtherConfigs <- MCOtherConfigs
  MaxEvents = 1
PROPERTIES
  SizeTouchesNothingElse
CHECK_DEADLOCK FALSE
