SPECIFICATION DumpSpec
CONSTANTS
  a = a
  c = c
  doc = doc
  bytes = bytes
  Plain = plain
  Const = const
  InfoKey = info
  InfoDoc = doc
  Keys = {a, c, info}
  ConstKeys = {c, info}
  Payloads = {doc, bytes}
  JsonTexts = {doc}
  Binaries = {bytes}
  Durations <- MCDurations
  TicksPerMs = 2
  MaxClock = 3
  Absent = Absent
  NoDeadline = NoDeadline
  NotFinite = NotFinite
  Stores = {plain, const}
  Blobs <- MCBlobs
  BadBlob = BadBlob
  Patterns <- MCPatterns
  MaxArgs = 1
  MaxOthers = 2
VIEW State
INVARIANTS
  LoadSucceeds
  RestoresContents
