SPECIFICATION Spec
CONSTANTS
  ByteBits = 2
  LaneBytes = 16
  Fresh <- MCFresh
  Selections <- MCSelections
  Operands <- MCOperands
  Texts <- MCTexts
  HexOf <- MCHexOf
  MaxStrings = 2
PROPERTIES
  OperationsAsShown
  FillsAsShown
CHECK_DEADLOCK TRUE
