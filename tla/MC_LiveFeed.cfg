CONSTANTS
  Browsers = {b1}
  Sessions = {s1, s2}
  WatchedTables = {"pods"}
  PolledTables = {"pvcs"}
  Names = {n1}
  Objects = {o1}
  QueueMax = 2
  WireMax = 1
  None = None
  NoSession = NoSession
  NoView = NoView
SPECIFICATION Spec
INVARIANTS TypeOK SnapshotFirst Coherent
SYMMETRY Symm
