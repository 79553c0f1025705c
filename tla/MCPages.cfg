SPECIFICATION Spec
CONSTANTS
    Nothing = Nothing
    Sessions = {s1, s2, s3}
    Things = {a, b}
    MaxCalls = 2
    Bound = 2
INVARIANTS PagesTypeOK WorkOwned  
PROPERTIES StepsKeep BusyEnds
\* The user may leave a page alone for ever once nothing is under way.
CHECK_DEADLOCK FALSE
