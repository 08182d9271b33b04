\* Two sessions of one capture object, one format each; its buffers are frames or not.
CONSTANTS
    Buffers = {b1, b2, b3}
    MaxSessions = 2
    MaxFormats = 1
    DataTypes = {"mem", "other"}
    Callbacks = {"mem"}
    MoveAssigns = FALSE
    NoFrame = NoFrame
SPECIFICATION FairSpec
INVARIANTS TypeOK RecycleIntoLiveStream WorkerNeedsObjects BufferExclusive BufferNeverLost
PROPERTIES ImplementsLease StopReturns
CHECK_DEADLOCK FALSE
