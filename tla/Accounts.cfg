SPECIFICATION Spec
CONSTANTS
  alice = alice
  bob = bob
  User = {alice, bob}
  Seeds <- MCSeeds
  Request = {r1, r2}
  Token = {t1, t2}
  NoUser = NoUser
  NoSession = NoSession
  MaxChanges = 2
  MaxFaults = 1
SYMMETRY Symmetry
INVARIANTS LastAdminKept AuditedActionsHappened StaleSessionExplained
CHECK_DEADLOCK FALSE
