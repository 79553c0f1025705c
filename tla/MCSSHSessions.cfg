CONSTANTS
    c1 = c1
    c2 = c2
    c3 = c3
    i1 = i1
    i2 = i2
    i3 = i3
    NoCall = NoCall
    NoId = NoId
    Calls <- MCCalls
    Ids <- MCIds
    UniqueIds = TRUE
    ShutsDown = FALSE
SPECIFICATION SafetySpec
SYMMETRY MCSymmetry
INVARIANTS
    IInv
    NoClientLeak
    DiallerKeepsClient
    RunningIsManaged
PROPERTY CountsReferences
CHECK_DEADLOCK FALSE
