SPECIFICATION Spec

CONSTANTS
    a = a
    b = b
    c = c
    env = env
    unknown = unknown
    lit = lit
    one = one
    Now = Now
    Bad = Bad
    Name <- MCName
    Reserved <- MCReserved
    Environment <- MCEnvironment
    Literal <- MCLiteral
    MaxClock = 2
    Scripts <- MCScripts

INVARIANTS
    EnvironmentKept
    NoErrorLost
    ArgumentsResolved
    UsedIsMentioned
    NoPlaceholderLeft

PROPERTY
    Termination
