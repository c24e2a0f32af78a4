SPECIFICATION Spec

CONSTANTS
    Var <- MCVar
    Cases <- EmptyCases

INVARIANT UnusedReported
