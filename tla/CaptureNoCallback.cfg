\* No callback is registered for the type of the stream's buffers.
CONSTANTS
    Buffers = {b1, b2}
    MaxSessions = 1
    MaxFormats = 1
    DataTypes = {"mem"}
    Callbacks = {"dma"}
    MoveAssigns = FALSE
    NoFrame = NoFrame
SPECIFICATION Spec
INVARIANTS BufferExclusive
CHECK_DEADLOCK FALSE
