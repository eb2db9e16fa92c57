SPECIFICATION Spec
CONSTANTS
  Reconnector = {r1}
  Ticker = Ticker
  Nobody = Nobody
  MaxChanges = 3
  MaxIsolations = 2
  MaxFaults = 0
SYMMETRY Symmetry
PROPERTY CompromisedDisconnects
CHECK_DEADLOCK FALSE
