CONSTANTS
    r1 = r1
    r2 = r2
    k1 = k1
    k2 = k2
    NoRequest = NoRequest
    Requests <- MCRequests
    Calls <- MCCalls
CHECK_DEADLOCK FALSE
SPECIFICATION Spec
INVARIANTS
    IInv
    DroppedOnRequest
PROPERTIES
    EveryPauseEnds
    EveryCallReturns
