\* Time stamps in any order; a window smaller than the ring.
CONSTANTS
    Capacity = 4
    Values = {0, 1, 2, 3, 4, 5}
    Zero = 0
    WindowSize = 3
    MaxFrametimes = {3, 5}
    Timestamps = {0, 1, 2, 3, 5, 7, 12, 13}
SPECIFICATION Spec
INVARIANTS StatsConsistent
PROPERTIES KeepsLastSamples
