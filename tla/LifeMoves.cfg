SPECIFICATION Spec
CONSTANTS
  Procs = {1, 2}
  Handles = {1, 2, 3}
  ProcOf <- Homes
  LayoutOf <- OneType
  RoleOf <- BothRoles
  Requested = {0, 15}
  SizeMax = 15
  CtrlBytes = 4
  Page = 1
  MaxObjs = 2
INVARIANTS
  CtrlIsMapped
  OwnerKeepsName
  NoNameLeaked
CHECK_DEADLOCK FALSE
