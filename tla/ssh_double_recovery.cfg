SPECIFICATION Spec
CONSTANTS
  a = a  b = b  c = c  None = None
  Calls <- ThreeCalls
  MaxTries = 1
  FaultKinds = {"crash"}
  MaxFaults = 1
CHECK_DEADLOCK FALSE
PROPERTY ImplementsContract
