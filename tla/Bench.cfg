SPECIFICATION Spec
CONSTANTS
  Bound = 3
  Iters = 10
  Total = 9
  Batches = {1, 2, 4}
INVARIANTS
  AllDelivered
  NoStandoff
PROPERTY BenchEnds
CHECK_DEADLOCK FALSE
