SPECIFICATION Spec
CONSTANTS
  Requested = {0, 2, 3}
  MaxBatch = 3
  MaxMsgs = 6
INVARIANTS
  TypeOK
  DeliveredInOrder
  PeekStable
  NoSlotRace
  CachesConservative
  PopAssert
  SizeSafeForEndpoint
  IndInv
PROPERTIES
  PushTakesWhatFits
  PopTakesWhatIsThere
  ImplementsFifo
  CallsReturn
