SPECIFICATION Spec
CONSTANTS
  Fields = {enabled, message}
  Values = {x}
  NoValue = NoValue
  Setters = {s1}
  MaxSets = 2
  MaxUpdates = 2
PROPERTIES
  ConfigReplaced
CHECK_DEADLOCK FALSE
