\* Three processes, one after the other or at once.
CONSTANTS
    MaxPid = 3
    MaxTicks = 2
    TickMod = 16
    PidReuse = FALSE
SPECIFICATION FairSpec
INVARIANTS TypeOK TicksCountedOnce
PROPERTIES Rediscovers
