SPECIFICATION Spec
CONSTANTS
  File = {f1, f2}
  None = None
  MaxLogins = 2
  MaxCalls = 3
  MaxReloads = 1
  MaxFaults = 1
INVARIANT HashFitsFile
PROPERTIES LeavesForAReason EndedIsNoticed
CHECK_DEADLOCK FALSE
