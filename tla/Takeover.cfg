SPECIFICATION Spec
CONSTANTS
  Capacity = 3
  Producers = {1, 2}
  Consumers = {3, 4}
  MaxMsgs = 4
CONSTRAINT FewProcs
INVARIANTS
  TakeoverInOrder
  UnreleasedKept
  CleanTakeoverConservative
PROPERTY TakeoverIsFifo
CHECK_DEADLOCK FALSE
