SPECIFICATION Spec

CONSTANTS
    Var <- MCVar
    Cases <- MCCases

INVARIANTS
    NoFalsePass
    ErrorIsLast
    Isolation

PROPERTIES
    NoRequestAfterError
    ImplementsContract
