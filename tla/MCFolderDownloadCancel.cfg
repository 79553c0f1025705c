CONSTANTS
    root = root
    d1 = d1
    d2 = d2
    f0 = f0
    f1 = f1
    f2 = f2
    f3 = f3
    Dirs <- MCDirs
    Files <- MCFiles
    Root = root
    Parent <- MCParent
    Capacity = 1
    Readers = 1
CHECK_DEADLOCK FALSE
SPECIFICATION SafetySpec
INVARIANT OkMeansEverything
