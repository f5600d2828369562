SPECIFICATION AllSpec
CONSTANTS
  Magic = Magic
  MaxCell = 7
  MaxU16 = 2
  NotText = 6
  Small = 4
  Digit = 7
  JsonTexts <- MCJsonTexts
  PongText = pong
  UnknownError = unknown
  Commands <- MCCommands
  Frames <- MCFrames
  Documents <- MCDocuments
  Symbols <- MCSymbols
  MaxPattern = 5
  Keys <- MCKeys
  service = service
  path = path
  topic = topic
  number = number
  DefaultService = default
  Arguments <- MCArguments
  Paths <- MCPaths
  Numbers <- MCNumbers
  NoValue = NoValue
  MaxArgs = 5
CHECK_DEADLOCK FALSE
INVARIANTS
  RoundTrip
  GarbledRefused
  MatchesGlob
  SavesOwnServer
