SPECIFICATION FairSpec
CONSTANTS
  Sessions = {s1, s2}
  PoolSize = 5
  AllocationFaults = TRUE
INVARIANTS TypeOK NoDanglingHandle DeadOnlyWithoutMemory LeakEndsWithItsSession
PROPERTIES CallsReturn
