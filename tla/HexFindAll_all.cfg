SPECIFICATION PatientSpec
CONSTANTS
  Sentinel = 6
  SizeFind = 2
  CacheSize = 4
  Requests <- AllRequests
INVARIANTS
  ReplacementsApart
  AllFound
PROPERTY SearchReturns
CHECK_DEADLOCK TRUE
