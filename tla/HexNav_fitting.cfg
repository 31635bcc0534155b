SPECIFICATION MCSpec
CONSTANTS
  MaxSize = 4
  SmallSize = 3
  MaxCapacity = 3
  MaxGroup = 2
  PageSizes <- MCPageSizes
  MaxSpans = 2
  Modulus = 100
INVARIANTS
  PlacesInData
  SelectionInData
  RowsOfWholeGroups
CHECK_DEADLOCK FALSE
