SPECIFICATION FairSpec
CONSTANTS
  w1 = w1
  w2 = w2
  Workers = {w1, w2}
  NoWorker = NoWorker
  Outputs = {"patch"}
  UnsafeTypes = {}
  FailingTypes = {}
  Intents = {"Paused", "Cancelled"}
  MaxIntents = 2
  MaxStalls = 0
  MaxCrashes = 1
  Vanish = FALSE
CHECK_DEADLOCK FALSE
PROPERTY CancelClearsOlderPending
