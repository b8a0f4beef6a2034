SPECIFICATION Spec
CONSTANTS
  c1 = c1
  c2 = c2
  Callers = {c1, c2}
  NoCaller = NoCaller
  Outputs = {"patch", "other"}
  MayFail = TRUE
  Intents = {"Paused", "Running", "Cancelled"}
  MaxIntents = 2
  MaxCrashes = 1
CHECK_DEADLOCK FALSE
SYMMETRY CallerSymmetry
INVARIANTS OneResultPerPlan QueryMatchesProjection ModesNeverMix
PROPERTIES ImplementsLifecycle
