SPECIFICATION Spec
CONSTANTS
  Capacity = 3
  Producers = {1, 2}
  Consumers = {3}
  MaxMsgs = 5
INVARIANT
  OwnersCacheConservative
CHECK_DEADLOCK FALSE
