SPECIFICATION MCSpec
CONSTANTS
  MaxSize = 17
  MaxCapacity = 3
  MaxGroup = 1
  PageSizes <- MCPageSizes
  MaxSpans = 2
  Modulus = 100
  GestureSize = 7
  HalfValues = 2
  TicksPerMS = 2
  TicksPerSec = 8
  UnixEpoch = 64
  GuidOffset = 40
  DosEpoch = 164
  LastStamp = 8000
  Contents <- MCContents
  Texts <- MCTexts
  Clips <- MCClips
  MaxTyped = 3
  MaxChanges = 1
  GoToTexts <- MCGoToTexts
  Commands <- MCCommands
  KeyWords <- MCKeyWords
  Configs <- MCConfigs
  Default <- MCDefault
  Presses <- MCPresses
  FactSets <- MCFactSets
INVARIANTS
  ArrowsMoveFocus
  RowsShowData
  TypedDigitsStand
PROPERTIES
  BlockIsRectangle
  EnteredIsShown
  GoesWhereAsked
  KeysRunAsAsked
CHECK_DEADLOCK FALSE
