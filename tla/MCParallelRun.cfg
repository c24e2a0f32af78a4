SPECIFICATION Spec

CONSTANTS
    Label <- MCLabel
    Files <- MCFiles
    Outcomes <- MCOutcomes
    LeftOver <- MCLeftOver
    Unloadable = {3}
    MayHang = {1, 2}
    MayPanic = {2}
    DiskFails = {4}
    JUnit = TRUE
    Worker = {w1, w2, w3}

INVARIANTS
    NoSendAfterClose
    OnePlace
    NoSuiteLost
    SummaryTruthful
    JUnitMatchesConsole

PROPERTIES
    ReportsAreFinal
    Termination
    NoStarvation
    ImplementsContract
