SPECIFICATION FairSpec
CONSTANTS
  p1 = p1  p2 = p2  p3 = p3  i1 = i1  i2 = i2  None = None
  Processes <- TwoReplicas
  Items <- OneItem
  SlotCount = 1
  MaxFaults = 1
  MaxAttempts = 2
  MaxTime = 1
INVARIANTS TypeOK DrainsWithSlot
PROPERTIES ImplementsQueue DueWorkIsTaken
