SPECIFICATION Spec
CONSTANTS
  Procs = {1, 2}
  Handles = {1, 2, 3}
  PidOf <- TwoInOne
  UserOf <- Users
  PidsReused = FALSE
INVARIANT
  OneOwningProcess
CHECK_DEADLOCK FALSE
