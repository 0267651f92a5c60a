SPECIFICATION Spec
CONSTANTS
    Calls <- TwoCalls
    Scopes <- MCScopes
    ScopeOf <- MCScopeOf
    Owners <- MCOwners
    OwnerOf <- MCOwnerOf
    Skew <- MCSkew
    MaxSkew = 1
    Ttl = 7
    Beat = 1
    Wait = 3
    Retry = 2
    MaxStall = 1
    Faults = FALSE
    MaxTime = 10
    NoLease = NoLease
CHECK_DEADLOCK FALSE
INVARIANTS TypeOK WorkKeepsLease
PROPERTY ImplementsContract
VIEW MCView
