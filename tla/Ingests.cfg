CONSTANTS
  w1 = w1
  w2 = w2
  u1 = u1
  Uploads = {u1}
  Workers = {w1, w2}
  MaxParts = 2
  MaxFaults = 1
SPECIFICATION Spec
INVARIANTS TypeOK CompletedIsWhole FailedLeavesNothing CopiesAreCaused
PROPERTIES Decided
CHECK_DEADLOCK FALSE
