SPECIFICATION MCSpec
CONSTANTS
  Files <- MCFiles
  Chosen <- MCChoices
  Sizes <- MCSizes
  Offsets <- MCOffsets
  MaxTempl = 2
  MaxApplied = 2
  MaxId = 2
  HalfValues = 2
  TicksPerMS = 2
  TicksPerSec = 8
  UnixEpoch = 64
  GuidOffset = 40
  DosEpoch = 164
  LastStamp = 8000
  Contents <- MCContents
  Texts <- MCTexts
  MaxEntries = 1
INVARIANTS
  PointersAgree
  HitFieldHasByte
PROPERTIES
  RowsStandForFields
CHECK_DEADLOCK FALSE
