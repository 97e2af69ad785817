SPECIFICATION Spec
CONSTANTS
  FirstTid = 255
  MaxRequests = 2
INVARIANTS RepliesNameTheirRequest
CHECK_DEADLOCK FALSE
