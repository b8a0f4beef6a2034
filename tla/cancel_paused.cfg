SPECIFICATION Spec
CONSTANTS
  w1 = w1
  Workers = {w1}
  NoWorker = NoWorker
  Outputs = {"patch"}
  UnsafeTypes = {}
  FailingTypes = {}
  Intents = {"Paused", "Cancelled"}
  MaxIntents = 2
  MaxStalls = 0
  MaxCrashes = 0
  Vanish = FALSE
CHECK_DEADLOCK FALSE
PROPERTY CompletedNotRerun
