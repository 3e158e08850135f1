\* Two commands at a time: two reviewers, applies, a recovery, and a handoff that
\* supersedes theirs.
SPECIFICATION RaceSpec
CONSTANTS
  d1 = d1  d2 = d2  p1 = p1  p2 = p2
  Absent = Absent
  Digests <- MCDigests
  Procs <- TwoProcs
  InitialContents <- Existing
  UserKeys = {}
  DecisionInputs <- RaceInputs
  Ties = FALSE
  MaxHandoffs = 2
  MaxAttempts = 2
  MaxCrashes = 0
  MaxIoErrors = 0
  MaxEdits = 0
SYMMETRY Symmetry
INVARIANTS
  WritesAreApproved
  ApprovalsAreOrdered
  MaterializedHasAnAudit
