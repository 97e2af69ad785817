SPECIFICATION Spec
CONSTANTS
  Modes = {0, 2, 3}
  Statuses = {"off", "on"}
  AcceptedVerdicts = {0, 1}
  TeeFaults = FALSE
  StorageFaults = FALSE
  Timeouts = FALSE
INVARIANTS AssertionsHold
CHECK_DEADLOCK FALSE
