SPECIFICATION FairSpec
CONSTANTS
  w1 = w1
  w2 = w2
  w3 = w3
  Workers = {w1, w2, w3}
  NoWorker = NoWorker
  Outputs = {"patch"}
  UnsafeTypes = {}
  FailingTypes = {}
  Intents = {"Cancelled"}
  MaxIntents = 1
  MaxStalls = 0
  MaxCrashes = 1
  Vanish = FALSE
CHECK_DEADLOCK FALSE
PROPERTY CancelConverges
