SPECIFICATION FairSpec
CONSTANTS
  Path = {p}
  Media = {p}
  Content <- MCContent
  MaxWrites = 1
  MaxFaults = 2
  MaxRows = 2
  JobsCap = 1
  Entry = {e1, e2}
  Worker = {w1}
  Main = Main
  HeldPoller = HeldPoller
  NoFile = NoFile
  Partial = Partial
PROPERTIES DecisionTakesEffect SweepEnds
CHECK_DEADLOCK FALSE
