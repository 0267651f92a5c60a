SPECIFICATION FairSpec
CONSTANTS
  c1 = c1  c2 = c2
  Callers <- TwoCallers
  Maintenance = Maintenance
  Requests <- AnyAndResume
  MaxAttempts = 1
  MaxFaults = 1
CHECK_DEADLOCK FALSE
INVARIANTS TypeOK HandleFitsStatus PausedHasRecovery
PROPERTIES TransitionsConverge TtlEndsContainers
