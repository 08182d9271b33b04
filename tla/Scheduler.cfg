\* A process of up to three threads; privileged or not.
CONSTANTS
    Tids = {1, 2, 3}
    Pid = 1
    NiceArgs <- MCNiceArgs
    Policies = {"BATCH", "FIFO"}
    Cores = 4
    MaxClones = 2
SPECIFICATION Spec
INVARIANTS TypeOK EveryThreadReniced
PROPERTIES AverageTruthful
