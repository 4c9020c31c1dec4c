SPECIFICATION Spec
CONSTANTS
  Producers = {1, 2}
  Consumer = 3
  Creators = {3}
  ParentOf <- Shells
  Bound = 2
  Batch = 2
  PeerCheckSpins = 1
  Total = 3
PROPERTY PeerNoticed
CHECK_DEADLOCK FALSE
