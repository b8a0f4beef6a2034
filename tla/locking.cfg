SPECIFICATION Spec
CONSTANTS
  w1 = w1
  w2 = w2
  Workers = {w1, w2}
  TTL = 2
  MaxTime = 4
SYMMETRY WorkerSymmetry
CHECK_DEADLOCK FALSE
INVARIANTS DeadlockFree FencedAtCommit AuthorityAfterWait
PROPERTY NoEarlyTakeover
