SPECIFICATION Spec
CONSTANTS
    Calls <- ThreeCalls
    Scopes <- MCScopes
    ScopeOf <- MCScopeOf
    Owners <- MCOwners
    OwnerOf <- MCOwnerOf
    Skew <- MCSkew
    MaxSkew = 1
    Ttl = 3
    Beat = 1
    Wait = 1
    Retry = 1
    MaxStall = 1
    Faults = TRUE
    MaxTime = 5
    NoLease = NoLease
CHECK_DEADLOCK FALSE
INVARIANTS OneAuthorisedHolder NoLeakedLease
VIEW MCView
