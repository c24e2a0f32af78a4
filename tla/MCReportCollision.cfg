SPECIFICATION Spec

CONSTANTS
    Label <- MCLabel
    Files <- CollidingFiles
    Outcomes <- CollidingOutcomes
    LeftOver = {}
    Unloadable = {}
    MayHang = {}
    MayPanic = {}
    DiskFails = {}
    JUnit = TRUE
    Worker = {w1, w2}

INVARIANT SeparateReports
