SPECIFICATION FairSpec
CONSTANTS
  w1 = w1
  w2 = w2
  w3 = w3
  Workers = {w1, w2, w3}
  NoWorker = NoWorker
  Outputs = {"patch"}
  UnsafeTypes = {"Verify"}
  FailingTypes = {}
  Intents = {"Paused", "Running", "Cancelled"}
  MaxIntents = 2
  MaxStalls = 0
  MaxCrashes = 1
  Vanish = FALSE
CHECK_DEADLOCK FALSE
INVARIANTS OpenPlanIsPending
PROPERTIES IntentIsObeyed ImplementsLifecycle Converges
