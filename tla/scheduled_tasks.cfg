SPECIFICATION FairSpec
CONSTANTS
  s1 = s1  s2 = s2  now1 = now1  w1 = w1  w2 = w2
  Servers <- TwoServers
  Commands <- OneCommand
  Workers <- TwoWorkers
  None = None
  MaxFaults = 2
CHECK_DEADLOCK FALSE
INVARIANTS TypeOK OneRunPerSlot ItemTellsTheRun
PROPERTIES RunsOnce AcceptedRunsEnd
