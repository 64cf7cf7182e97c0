\* Is lent memory only read, as dbuffer.h says?
CONSTANTS
    Buffers = {x}
    Blocks = {1, 2, 3}
    Bytes = {b1, b2, junk}
    Junk = junk
    MINALLOC = 2
    Careful = TRUE
    MaxSize = 3
    MaxMemory = 8
SPECIFICATION DBSpec
PROPERTY LentKept
