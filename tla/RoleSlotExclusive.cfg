SPECIFICATION Spec
CONSTANTS
  Procs = {1, 2, 3}
  Handles = {1, 2, 3}
  PidOf <- OneEach
  UserOf <- Users
  PidsReused = FALSE
INVARIANTS
  SlotInv
  OneOwningProcess
  OwnerSeenAlive
PROPERTIES
  ReleasedOnlyByOwner
  RoleIsLock
  BindEnds
CHECK_DEADLOCK FALSE
