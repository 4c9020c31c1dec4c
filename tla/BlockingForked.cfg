SPECIFICATION Spec
CONSTANTS
  Producers = {1, 2}
  Consumer = 3
  Creators = {1}
  ParentOf <- Forked
  Bound = 2
  Batch = 2
  PeerCheckSpins = 1
  Total = 3
PROPERTY PushReturns
CHECK_DEADLOCK FALSE
