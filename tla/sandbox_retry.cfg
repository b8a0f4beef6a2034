SPECIFICATION FairSpec
CONSTANTS
  p1 = p1
  p2 = p2
  Paths = {p1}
  NoPath = NoPath
  ForeignPaths = {}
  MaxAttempts = 1
  MaxFaults = 1
  ForeignNames = {}
  Patches = {"fix"}
  MaxCommands = 1
  LostCreates = {}
  ReinspectAttempts = 2
CHECK_DEADLOCK FALSE
PROPERTIES
  FailedRemovalIsRetryable
