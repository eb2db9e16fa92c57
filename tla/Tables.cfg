SPECIFICATION Spec
CONSTANTS
  PAGE_SIZE = 1
  Matching = {1, 2, 4}
  MaxRows = 4
  FirstRows = 2
  MaxLoads = 2
  Kind <- MCKind
  Keys <- MCKeys
  NoKey = NoKey
  MaxVersions <- MCVersions
  MaxGets = 2
  MaxCalls <- MCCalls
  Visits <- MCVisits
  MaxFaults = 1
INVARIANTS NeverBehindItsNotice PagingMissesNothing ReviewExplained
PROPERTY AuditCatchesUp
CHECK_DEADLOCK FALSE
