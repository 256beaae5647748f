CONSTANTS
  Browsers = {b1}
  Sessions = {s1, s2}
  WatchedTables = {"pods"}
  PolledTables = {}
  Names = {n1}
  Objects = {o1}
  QueueMax = 2
  WireMax = 1
  None = None
  NoSession = NoSession
  NoView = NoView
SPECIFICATION LiveSpec
PROPERTIES CatchesUp DeadSessionReaped Reconnects
