SPECIFICATION Spec
CONSTANTS
  good = good
  bad = bad
  Run = {1, 2}
  Data = {good, bad}
  Filename = {name}
  Partial = Partial
  Trace <- MCTrace
  Slow <- MCSlow
  Yara = {}
  Alike <- MCAlike
  Admin = {ann}
  Submitted <- MCSubmitted
  Proposed <- MCProposed
  MaxFaults = 1
INVARIANTS VerdictFitsSample VerdictIsEarned AutoProposalExplained AuditedDecisionStands AnswerIsLogged LeftoversExplained RequestGoesOn
CHECK_DEADLOCK FALSE
