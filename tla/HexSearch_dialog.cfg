SPECIFICATION MCSpec
CONSTANTS
  Lane = 8
  Lanes = 1
  CacheSize = 12
  Wildcard = 3
  Capitals = {1}
  ToLower = 1
  HalfValues = 3
  TicksPerMS = 2
  TicksPerSec = 8
  UnixEpoch = 64
  GuidOffset = 40
  DosEpoch = 164
  LastStamp = 8
  Ansi <- MCAnsi
  Utf8 <- MCUtf8
  None = None
  NoEntry = None
  Datas <- AllDatas
  Boxes <- AllBoxes
  Spans <- AllSpans
  Entries <- AllEntries
  Edits <- AllEdits
INVARIANTS
  FindsInOrder
  ReplacesOneMatch
  ListInData
CHECK_DEADLOCK TRUE
