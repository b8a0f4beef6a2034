SPECIFICATION Spec
CONSTANTS
  w1 = w1
  w2 = w2
  Workers = {w1, w2}
  NoWorker = NoWorker
  Outputs = {"patch"}
  UnsafeTypes = {"RunReasoner", "SucceedRun"}
  FailingTypes = {"RunReasoner"}
  Intents = {"Paused", "Running"}
  MaxIntents = 2
  MaxStalls = 1
  MaxCrashes = 0
  Vanish = TRUE
CHECK_DEADLOCK FALSE
SYMMETRY WorkerSymmetry
INVARIANTS FencedLog ExecutedWasPlanned SuccessIsEarned OneResultPerPlan CompletionHasReceipt UnsafeAtMostOnce
PROPERTIES OwnerStopsOnlyOnRace CompletedNotRerun
