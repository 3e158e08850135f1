\* A recovery that is killed after its first record.
SPECIFICATION ReadySpec
CONSTANTS
  d1 = d1  d2 = d2  p1 = p1  p2 = p2
  Absent = Absent
  Digests <- MCDigests
  Procs <- OneProc
  InitialContents <- Existing
  UserKeys = {}
  DecisionInputs <- Approvals
  Ties = FALSE
  MaxHandoffs = 1
  MaxAttempts = 2
  MaxCrashes = 2
  MaxIoErrors = 0
  MaxEdits = 0
INVARIANTS
  RecoveryIsResolvable
