\* The caller releases a kernel it was given.
CONSTANTS
    Programs = {p1}
    Buffers = {b1}
    MaxObjects = 7
SPECIFICATION SpecWithOwner
INVARIANTS NeverReleasedTwice
CHECK_DEADLOCK FALSE
