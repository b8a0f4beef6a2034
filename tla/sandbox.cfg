SPECIFICATION FairSpec
CONSTANTS
  p1 = p1
  p2 = p2
  Paths = {p1, p2}
  NoPath = NoPath
  ForeignPaths = {p2}
  MaxAttempts = 2
  MaxFaults = 3
  ForeignNames = {2}
  Patches = {"fix", "test"}
  MaxCommands = 3
  LostCreates = {"absent", "inflight", "created"}
  ReinspectAttempts = 2
CHECK_DEADLOCK FALSE
INVARIANTS
  OwnedIsTracked
  WorktreeOutlivesContainers
  NothingLeftBehind
  LeftoverHasOwner
  CommandsSeeHiddenPointer
  ForeignUntouched
PROPERTIES
  PatchesStay
  CompletedIsFinal
  DestroyConverges
