\* Three calls of the portal, one capture, a callback left out, frames kept and moved.
CONSTANTS
    MaxCalls = 3
    CallAgain = FALSE
    Buffers = {b1, b2}
    MaxFormats = 2
    DataTypes = {"dma", "mem"}
    Callbacks = {"dma"}
    MoveAssigns = TRUE
    NoFrame = NoFrame
SPECIFICATION AppSpec
INVARIANTS SuccessIsComplete SessionOutlivesStream NoDescriptorLeaks LocalsOutliveCallbacks
CHECK_DEADLOCK FALSE
