SPECIFICATION FairSpec
CONSTANTS
    c1 = c1
    c2 = c2
    c3 = c3
    p1 = p1
    p2 = p2
    None = None
    Commands <- ThreeCommands
    Placements <- OnePlacement
    ExecutionKinds <- BothKinds
    MaxNotes = 1
    MaxInFlight = 1
    Detached = FALSE
    CancelMayFail = FALSE
    Crashes = FALSE
    LeaseMayBeLost = FALSE
CHECK_DEADLOCK FALSE
INVARIANTS TypeOK SupersedeHasSuccessor ActiveIsAttended
PROPERTY EveryAttemptSettles
VIEW OrderlyView
