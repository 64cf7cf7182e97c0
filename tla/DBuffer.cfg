\* Two buffers that hand blocks over, with careful callers.
CONSTANTS
    Buffers = {x, y}
    Blocks = {1, 2, 3}
    Bytes = {b1, junk}
    Junk = junk
    MINALLOC = 2
    Careful = TRUE
    MaxSize = 3
    MaxMemory = 6
VIEW MCView
SYMMETRY MCSymmetry
SPECIFICATION DBSpec
INVARIANTS DataInBlock OneOwner
PROPERTIES LeaksAreTwo ImplementsByteSeq
