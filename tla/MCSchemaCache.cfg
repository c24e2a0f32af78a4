SPECIFICATION FairSpec

CONSTANTS
    v1 = v1
    v2 = v2
    page = page
    Missing = Missing
    Hanging = Hanging
    NotCached = NotCached
    Workers <- MCWorkers
    Refs <- MCRefs
    Calls <- MCCalls
    suitesDir <- MCDir
    hostFlag <- MCHost
    Contents = {v1, v2, page}
    ErrorPages = {page}
    MaxChanges = 1

CHECK_DEADLOCK FALSE

INVARIANTS
    FromItsSource
    OneSchema

PROPERTY OnlyWaitersHang
