CONSTANTS
  None = None
  Failed = Failed
  Garbled = Garbled
  Menu <- MCMenu
  Starts <- MCStarts
  MaxChanges = 3
  Claims = {"a", "b"}
  Volumes <- MCVolumes
  Disk = 6
  MaxClaimChanges = 3
  Nodes = {"n1", "n2"}
  Pods = {"p1"}
  Usages = {1, 2}
  Capacities = {4, 8}
  DefaultCapacity = 4
  MaxMetricChanges = 3
  NumInits = 2
  NumMains = 2
  MaxExits = 4
  Ips = {1, 2}
  AgentNodes = {"n1", "n2"}
  Memories <- MCMemories
  MaxAgentChanges = 2
  Codes = {200, 404, 503}
SPECIFICATION Spec
INVARIANTS LoggedOncePerOutage OomNotForgotten LastExitIsNewest InitTellsWhatBlocks VerdictOfItsProbe
PROPERTIES ScansOfOneRound UsageIsOwn EachKindFollows ChecksFollowCluster ClaimsFollow SamplesFollow AgentsFollow
CHECK_DEADLOCK FALSE
