SPECIFICATION FairSpec
CONSTANTS
  Modes <- AnyMode
  Statuses = {"absent", "off", "on"}
  AcceptedVerdicts = {1}
  TeeFaults = TRUE
  StorageFaults = TRUE
  Timeouts = TRUE
INVARIANTS TypeOK AcknowledgedWriteIsStored AcceptedReadIsCurrent TamperedReadIsRejected
PROPERTIES TamperedWriteIsNotStored ServerQuits ClientExits
CHECK_DEADLOCK FALSE
