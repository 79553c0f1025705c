SPECIFICATION Spec
CONSTANTS
    g1 = g1  g2 = g2  h1 = h1  l1 = l1  l2 = l2
    Groups <- MCGroups
    Hosts <- MCHosts
    Kind <- MCKind
    Visits <- MCVisits
    Root = Root
    PgNode = PgNode
    NoKey = NoKey
    Loads <- MCLoads
    StartRows <- MCStart
    MaxCalls = 2
    MaxDepth = 4
    MaxSteps = 2
SYMMETRY Symmetry
CHECK_DEADLOCK FALSE
INVARIANTS TypeOK ActiveIsOpen QuietTreeIsCurrent
PROPERTY RowsStayReachable
