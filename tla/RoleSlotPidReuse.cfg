SPECIFICATION Spec
CONSTANTS
  Procs = {1, 2, 3}
  Handles = {1, 2, 3}
  PidOf <- OneEach
  UserOf <- Users
  PidsReused = TRUE
INVARIANT
  OneOwningProcess
CHECK_DEADLOCK FALSE
