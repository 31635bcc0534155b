SPECIFICATION Spec
CONSTANTS
  Sentinel = 5
  SizeFind = 1
  CacheSize = 3
  Requests <- WorkerReplacements
PROPERTY SearchReturns
CHECK_DEADLOCK FALSE
