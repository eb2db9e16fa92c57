SPECIFICATION Spec
CONSTANTS
  Path = {p}
  Media = {p}
  Content <- MCContent
  MaxWrites = 2
  MaxFaults = 1
  MaxRows = 2
  JobsCap = 2
  Entry = {e1, e2}
  Worker = {w1, w2}
  Main = Main
  HeldPoller = HeldPoller
  NoFile = NoFile
  Partial = Partial
SYMMETRY Symmetry
INVARIANTS OneOwner ReleaseAuthorised HeldRowMatches StuckOnlyAfterFailure QuarantinedUnlessMissed
PROPERTY BytesLostOnlyByOverwrite
CHECK_DEADLOCK FALSE
