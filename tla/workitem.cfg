\* Two terminals: executions and their evidence, while the scope and the source change.
SPECIFICATION ReadySpec
CONSTANTS
  p1 = p1  p2 = p2  w1 = w1  w2 = w2  s1 = s1  s2 = s2  c1 = c1  c2 = c2
  login = login  logout = logout
  Procs = {p1, p2}
  Items = {w1, w2}
  Revisions = {s1, s2}
  ChangeRevisions = {c1, c2}
  Reqs = {login, logout}
  ReqsOf <- MCReqsOf
  NoChange = NoChange
  RequireChange = TRUE
  EvidenceIds <- MCEvidenceIds
  PlanIds <- MCPlanIds
  EvidenceInputs <- MCEvidence
  CriteriaInputs <- MCCriteria
  DecisionInputs <- MCDecisions
  MaxCommands = 4
  MaxTraces = 2
  MaxReports = 2
  MaxEdits = 1
  MaxCrashes = 1
INVARIANTS
  ExecutedWithinScope
  VerifiedIsBacked
  DoneIsAuthorized
  PlannedStepIsAllowed
CHECK_DEADLOCK FALSE
