SPECIFICATION Spec

CONSTANTS
    Frame = 3
    Limits <- MCLimits
    MaxCalls = 4
    MaxClock = 7

INVARIANTS
    QueueWithinLimit
    SlidingWindow
    PausesOnlyWhenFull

PROPERTY CallsGoThrough
