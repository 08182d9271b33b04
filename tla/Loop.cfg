\* Three frames, a clock made some time after boot.  Deadlines, RedZones, Times
\* and MaxDisarms are for calls the loop does not make.
CONSTANTS
    NsPerSecond = 960
    Rates = {60}
    RedZones = {}
    DrawTimes = {0, 4, 9, 20}
    Times = {}
    kDefaultRedZoneNs = 2
    kStartingDrawTimeNs = 3
    Deadlines = {1}
    StartTime = 10
    MaxTime = 200
    PipeCapacity = 1
    MaxArms = 3
    MaxDisarms = 0
    PipeMayFail = TRUE
    MaxLate = 2
    MaxFrames = 3
SPECIFICATION FairSpec
PROPERTIES WakeupsNeverGoBack LoopEnds
CHECK_DEADLOCK FALSE
