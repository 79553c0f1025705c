SPECIFICATION Spec
CONSTANTS
    None = None
    Sessions = {tunnelled, direct}
    Switches = {x1, x2}
    Tunnelled = {tunnelled}
    Conns = {c1}
INVARIANTS IInv ListedIsOpen HandlersHaveClient RacelessSwitchesCloseAll
PROPERTY GoneIsClosed
