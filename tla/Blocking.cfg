SPECIFICATION Spec
CONSTANTS
  Producers = {1, 2}
  Consumer = 3
  Creators = {1, 3}
  ParentOf <- Shells
  Bound = 2
  Batch = 2
  PeerCheckSpins = 1
  Total = 3
INVARIANTS
  NothingLeftBehind
  GivesUpOnGonePeer
  ErrorsAreRestarts
PROPERTIES
  PushReturns
  PushGivesUp
  DrainBounded
  DrainEnds
CHECK_DEADLOCK FALSE
