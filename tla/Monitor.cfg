SPECIFICATION Spec
CONSTANTS
  Reconnector = {r1, r2}
  Ticker = Ticker
  Nobody = Nobody
  MaxChanges = 3
  MaxIsolations = 3
  MaxFaults = 3
SYMMETRY Symmetry
INVARIANTS FlagTracksDocker EveryChangeJudgedOnce PublicRecordIsTrue
PROPERTY StaleOnlyIfRaced
CHECK_DEADLOCK FALSE
