CONSTANTS
  Keys = {"a", "b"}
  None = None
  BackoffMax = 3
  MaxRevision = 3
SPECIFICATION LiveSpec
INVARIANTS TypeOK Mirror
PROPERTIES NeverBackwards Converges
