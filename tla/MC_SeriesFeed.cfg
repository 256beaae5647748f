CONSTANTS
  Sessions = {s1}
  Nodes = {"pi1"}
  Checks = {"web"}
  Configs = {"old", "new"}
  MetricFields = {"mem_pct"}
  AgentFields = {"mem_pct", "fan"}
  SmartFields = {"smart"}
  HistoryFields = {"mem_pct"}
  QueueMax = 2
  EventsLen = 2
  HistoryLen = 2
  CheckLen = 2
  MaxClock = 5
  NoCheck = NoCheck
  NoView = NoView
SPECIFICATION Spec
INVARIANTS TypeOK HistoryReplayed LatestHeals HardwareFollows
