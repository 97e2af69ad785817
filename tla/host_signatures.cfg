SPECIFICATION Spec
CONSTANTS
  Programs = {"client", "server"}
  Uses <- MCUses
  Tids = {1, 257}
  MaxContexts = 1
  MaxSessions = 1
  TeeFaults = TRUE
INVARIANTS TypeOK VerifiedWasSigned TamperedWasForged
