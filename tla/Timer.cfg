\* Wait against Disarm at every point, with a pipe of two bytes.
CONSTANTS
    Deadlines = {1, 2}
    StartTime = 0
    MaxTime = 3
    PipeCapacity = 2
    MaxArms = 2
    MaxDisarms = 3
    PipeMayFail = FALSE
SPECIFICATION TimerFairSpec
INVARIANTS NudgeNotLost
PROPERTIES FiresOnlyWhenDue DisarmWakes ExpiryWakes
CHECK_DEADLOCK FALSE
