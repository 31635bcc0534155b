SPECIFICATION Spec
CONSTANTS
  Sizes = {0, 2}
  Extents <- AllExtents
  MaxBkms = 3
  MaxVirt = 1
  MaxId = 3
  Written = {0}
INVARIANTS
  MenuRemovesSelected
PROPERTIES
  IdsStayDistinct
  ListFollows
CHECK_DEADLOCK TRUE
