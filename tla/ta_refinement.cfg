SPECIFICATION Spec
CONSTANTS
  Sessions <- OneUserSessions
  CommandsOf <- OneUserCommands
  Addresses <- TwoAddresses
  CoilValues <- OffOn
  TransactionIds <- TwoTransactions
  StorageFaults = TRUE
PROPERTIES ServiceSpec
