SPECIFICATION ClientSpec
CONSTANTS
  a = a
  b = b
  c = c
  doc = doc
  bytes = bytes
  NullText = null
  Malformed = Malformed
  NoArg = NoArg
  Plain = plain
  Const = const
  InfoKey = info
  InfoDoc = doc
  Keys = {a, b, c, info}
  ConstKeys = {c, info}
  Payloads = {doc, null, text, bytes}
  JsonTexts = {doc, null}
  Binaries = {bytes}
  Durations <- MCDurations
  TicksPerMs = 1
  MaxClock = 1
  Absent = Absent
  NoDeadline = NoDeadline
  NotFinite = NotFinite
  Stores = {plain, const}
  Blobs <- MCBlobs
  BadBlob = BadBlob
  Patterns <- MCPatterns
  MaxArgs = 2
VIEW Contents
INVARIANTS
  TypeOK
  Partitioned
PROPERTIES
  ConstWriteOnce
  NoEffectOnFailure
  ImplementsExpiringMap
  OnlyOwnWrites
  AnswersTrue
