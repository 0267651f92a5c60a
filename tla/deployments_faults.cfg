SPECIFICATION Spec
CONSTANTS
    c1 = c1
    c2 = c2
    c3 = c3
    p1 = p1
    p2 = p2
    None = None
    Commands <- ThreeCommands
    Placements <- TwoPlacements
    ExecutionKinds <- ContainersOnly
    MaxNotes = 1
    MaxInFlight = 1
    Detached = TRUE
    CancelMayFail = TRUE
    Crashes = TRUE
    LeaseMayBeLost = TRUE
CHECK_DEADLOCK FALSE
INVARIANTS OlderAttemptsAreRefused SupersededNeverCompletes
PROPERTY SupersedeMarkIsFinal
SYMMETRY Symmetry
VIEW MCView
