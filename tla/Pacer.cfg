\* The pacer under any order of setters, updates and calls.
CONSTANTS
    NsPerSecond = 960
    Rates <- MCRates
    RedZones = {1, 5}
    DrawTimes = {0, 2, 5, 100}
    Times = {0, 7, 30}
    kDefaultRedZoneNs = 2
    kStartingDrawTimeNs = 3
SPECIFICATION PacerFairSpec
INVARIANTS PacerTypeOK NoVBlankSkipped
PROPERTIES DeadlineIsFirstToMeet EstimateBracketsDraw CallReturns
