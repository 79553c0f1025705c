CONSTANTS
    r1 = r1
    r2 = r2
    c1 = c1
    NoRule = NoRule
    Rules <- MCRules
    Conns <- MCConns
    Kind <- MCDynamicRemote
    Port <- MCPort
SPECIFICATION Spec
INVARIANTS
    IInv
    HoldsNothingUnlisted
    ListedIsWhole
    ClosedListenerIsCancelled
PROPERTIES
    StopTearsDown
    StopClosesConns
    StopAllStopsFound
CHECK_DEADLOCK FALSE
