CONSTANTS
    r1 = r1
    r2 = r2
    NoRule = NoRule
    Rules <- MCRules
    Conns <- MCConns
    Kind <- MCKind
    Port <- MCPort
SPECIFICATION ViewSpec
PROPERTY DeleteStopsRow
CHECK_DEADLOCK FALSE
