SPECIFICATION FairSpec
CONSTANTS
  FirstTid = 1
  MaxRequests = 3
INVARIANTS TypeOK OneReplyInOrder WholeFrames RepliesNameTheirRequest
PROPERTIES RequestsAnswered ServerEnds
CHECK_DEADLOCK FALSE
