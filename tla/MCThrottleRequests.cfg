SPECIFICATION Spec

CONSTANTS
    Frame = 3
    Limits <- MCLimits
    MaxCalls = 4
    MaxClock = 7

INVARIANT RequestsWithinLimit
