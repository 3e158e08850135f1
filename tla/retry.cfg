\* One command at a time, never killed: failures, retries, records that tie, and a
\* second handoff that supersedes the first.
SPECIFICATION Spec
CONSTANTS
  d1 = d1  d2 = d2  p1 = p1  p2 = p2
  Absent = Absent
  Digests <- MCDigests
  Procs <- OneProc
  InitialContents <- Existing
  UserKeys = {1}
  DecisionInputs <- ApprovalsAndVeto
  Ties = TRUE
  MaxHandoffs = 2
  MaxAttempts = 2
  MaxCrashes = 0
  MaxIoErrors = 0
  MaxEdits = 1
INVARIANTS
  RetriesUseNewKeys
PROPERTIES
  RefinesLifecycle
  NoVetoedWrite
