\* One command at a time, killed at any await; one handoff, new or existing Change.
SPECIFICATION Spec
CONSTANTS
  d1 = d1  d2 = d2  p1 = p1  p2 = p2
  Absent = Absent
  Digests <- MCDigests
  Procs <- OneProc
  InitialContents <- NewOrExisting
  UserKeys = {1}
  DecisionInputs <- ApprovalsAndVeto
  Ties = FALSE
  MaxHandoffs = 1
  MaxAttempts = 4
  MaxCrashes = 2
  MaxIoErrors = 1
  MaxEdits = 0
INVARIANTS
  TypeOK
  MaterializedIsAudited
  HistoryChains
  OneAuditPerKey
  RecoveryAgreesWithAudit
  StatusIsTrue
