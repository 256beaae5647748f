CONSTANTS
  Sessions = {s1, s2}
  Payload = {p1, p2}
  QueueMax = 2
  MaxLog = 5
SPECIFICATION Spec
INVARIANT IInv
PROPERTY ImplementsBroadcastLog
