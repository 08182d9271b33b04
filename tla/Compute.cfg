\* Context, programs and a buffer under any order of calls; kernels are left
\* to the program objects.
CONSTANTS
    Programs = {p1, p2}
    Buffers = {b1}
    MaxObjects = 7
SPECIFICATION Spec
INVARIANTS OwnershipExact
CHECK_DEADLOCK FALSE
