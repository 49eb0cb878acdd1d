SPECIFICATION Spec
CONSTANTS
  Keys <- MCKeys
  FirstConfig <- MCFirstConfig
  Sizes <- MCSizes
  OtherConfigs <- MCOtherConfigs
  MaxEvents = 2
PROPERTIES
  SecondEditKeepsFirst
CHECK_DEADLOCK FALSE
