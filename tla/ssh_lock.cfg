SPECIFICATION Spec
CONSTANTS
  a = a  b = b  c = c  None = None
  Calls <- ThreeCalls
  MaxTries = 1
  FaultKinds = {"crash", "acquire", "beat", "release", "stall"}
  MaxFaults = 2
CHECK_DEADLOCK FALSE
SYMMETRY Symmetry
INVARIANTS TypeOK OverlapIsReported NoLockLeft
PROPERTY ContractUntilTaken
