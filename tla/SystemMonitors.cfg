\* Every monitor in turn.
CONSTANTS
    Cores = {0, 1}
    MaxCpuTicks = 2
    CpuTickMod = 16
    MaxGpuTime = 7
    TicksPerMs = 2
    CounterFiles = {TRUE, FALSE}
    DrmPids = {p1, p2}
    DrmFds = {1, 2}
    DrmClients = {c1, c2}
    MaxDrmTime = 3
    NoClient = NoClient
    TempPaths = {1, 2}
    Drivers = {"coretemp", "i915", "acpitz"}
    Labels = {"Core", ""}
    Readings = {0, 40, 90}
    MaxKib = 3
    KibMod = 16
SPECIFICATION SystemSpec
SYMMETRY Alike
INVARIANTS NoStaleReading MemoryFiguresAgree
PROPERTIES SharesTruthful ActivityTruthful UseBracketed
CHECK_DEADLOCK FALSE
