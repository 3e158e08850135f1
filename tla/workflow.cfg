\* Pipelines and a cycle; steps that hang, time out and go on; one callback throws.
SPECIFICATION Spec
CONSTANTS
  Workflows <- MCWorkflows
  MaxThrows = 1
INVARIANTS
  OnlyTimedOutWorkIsLate
PROPERTIES
  RefinesDagRun
  Terminates
CHECK_DEADLOCK FALSE
