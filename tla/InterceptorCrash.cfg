SPECIFICATION Spec
CONSTANTS
  Path = {p}
  Media = {}
  Content <- MCContent
  MaxWrites = 1
  MaxFaults = 1
  MaxRows = 1
  JobsCap = 1
  Entry = {e1, e2}
  Worker = {w1}
  Main = Main
  HeldPoller = HeldPoller
  NoFile = NoFile
  Partial = Partial
INVARIANT CrashLosesNothing
CHECK_DEADLOCK FALSE
