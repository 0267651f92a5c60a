SPECIFICATION FairSpec
CONSTANTS
  p1 = p1  p2 = p2  p3 = p3  i1 = i1  i2 = i2  None = None
  Processes <- TwoReplicas
  Items <- OneItem
  SlotCount = 2
  MaxFaults = 0
  MaxAttempts = 1
  MaxTime = 0
PROPERTY DueWorkIsTaken
