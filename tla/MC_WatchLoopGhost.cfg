CONSTANTS
  Keys = {"a"}
  None = None
  BackoffMax = 3
  MaxRevision = 2
SPECIFICATION LiveSpec
PROPERTY DeletedDisappears
