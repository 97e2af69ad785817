SPECIFICATION Spec
CONSTANTS
  Modes = {1}
  Statuses = {"off"}
  AcceptedVerdicts = {0, 1}
  TeeFaults = FALSE
  StorageFaults = FALSE
  Timeouts = FALSE
INVARIANTS AssertionsHold
CHECK_DEADLOCK FALSE
