SPECIFICATION HistorySpec
CONSTANTS
  Byte = {0, 1}
  Zero = 0
  DataSize = 3
  CacheSize = 1
  UndoMax = 3
  UndoDrop = 2
  MaxSnapshot = 2
  Spans <- MCSpans
INVARIANT HistoriesLeadBack
PROPERTY UndoImplementsHistory
CHECK_DEADLOCK FALSE
