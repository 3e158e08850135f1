\* A recovery after the handoff it should judge was superseded.
SPECIFICATION ReadySpec
CONSTANTS
  d1 = d1  d2 = d2  p1 = p1  p2 = p2
  Absent = Absent
  Digests <- MCDigests
  Procs <- OneProc
  InitialContents <- Existing
  UserKeys = {}
  DecisionInputs <- Approvals
  Ties = FALSE
  MaxHandoffs = 2
  MaxAttempts = 2
  MaxCrashes = 1
  MaxIoErrors = 0
  MaxEdits = 0
INVARIANTS
  RecoveryAgreesWithAudit
