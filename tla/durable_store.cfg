SPECIFICATION StoreSpec
CONSTANTS
  Intents = {"Paused", "Running", "Cancelled"}
  MaxEvents = 9
  MaxDamages = 2
  MaxDamaged = 5
  x1 = x1
  x2 = x2
  x3 = x3
  Writes = {x1, x2, x3}
  NoWrite = NoWrite
  Bytes = {"patch", "other"}
  Scopes = {"run", "elsewhere"}
  MaxPowerLosses = 1
CHECK_DEADLOCK FALSE
SYMMETRY WriteSymmetry
INVARIANTS RebuildIsReduce CheckpointStaysUsable RegisteredIsIntact
