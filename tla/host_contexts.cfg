SPECIFICATION FairSpec
CONSTANTS
  Programs = {"server", "reseed"}
  Uses <- MCUses
  Tids = {1}
  MaxContexts = 2
  MaxSessions = 1
  TeeFaults = TRUE
INVARIANTS OnlyFailedOpensLeak SessionsComeBack
PROPERTIES CallsReturn
