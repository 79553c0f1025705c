CONSTANTS
    c1 = c1
    c2 = c2
    c3 = c3
    i1 = i1
    i2 = i2
    i3 = i3
    NoCall = NoCall
    NoId = NoId
    Calls <- MCTwoCalls
    Ids <- MCTwoIds
    UniqueIds = TRUE
    ShutsDown = FALSE
SPECIFICATION SafetySpec
PROPERTY ClosesOnlyUnusedClient
CHECK_DEADLOCK FALSE
