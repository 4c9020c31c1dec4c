SPECIFICATION Spec
CONSTANTS
  Procs = {1, 2}
  Handles = {1, 2, 3}
  ProcOf <- Homes
  LayoutOf <- TwoTypes
  RoleOf <- Producers
  Requested = {2, 5, 15}
  SizeMax = 15
  CtrlBytes = 4
  Page = 2
  MaxObjs = 2
INVARIANTS
  AttachedComplete
  SlotsMapped
PROPERTIES
  SlotClearedByDetachOnly
  AttachBounded
  AttachEnds
CHECK_DEADLOCK FALSE
