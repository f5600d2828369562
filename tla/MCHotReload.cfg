SPECIFICATION Spec
CONSTANTS
  Fields = {enabled, message}
  Values = {x, y}
  NoValue = NoValue
  Setters = {s1}
  MaxSets = 3
  MaxUpdates = 2
PROPERTIES
  AppliedInOrder
  SettingsReachAlgorithm
  ShutdownEnds
CHECK_DEADLOCK FALSE
