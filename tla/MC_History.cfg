CONSTANTS
  Sessions = {"history"}
  Writer = "history"
  QueueMax = 2
  HistoryLen = 2
  Retention = 2
  PruneInterval = 1
  MaxClock = 5
SPECIFICATION LiveSpec
INVARIANTS TypeOK RowsOrdered Accounted FileBounded
PROPERTIES ChartSurvives EachSamplePersists
