SPECIFICATION Spec
CONSTANTS
  PlainKeys = {a, b}
  ConstKeys = {info}
  InfoKey = info
  Absent = Absent
  Broken = Broken
  OptionSets <- MCOptionSets
  MaxWrites = 2
  MaxStarts = 2
INVARIANTS
  NoOrphan
  ExitZeroMeansSaved
  RestoredAfterRestart
PROPERTIES
  SavesWhatWasLive
  SavedSurvives
  StopEnds
CHECK_DEADLOCK FALSE
