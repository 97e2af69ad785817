SPECIFICATION FairSpec
CONSTANTS
  Sessions <- ReseedSessions
  CommandsOf <- ReseedCommands
  Addresses <- TwoAddresses
  CoilValues <- OffOn
  TransactionIds <- OneTransaction
  StorageFaults = TRUE
INVARIANTS TypeOK HeldImageIsCurrent ObjectIsReleased OnOnlyIfAsked
PROPERTIES OnlySignedWrites CallsReturn
