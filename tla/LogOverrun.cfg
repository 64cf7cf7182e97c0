\* One client with packets of different lengths.
CONSTANTS
    Clients = {a}
    Lengths = {2, 9}
    MaxPackets = 3
    HDR = 1
    NODE = 4
    PACKETBUFALLOCSIZE = 16
    PACKETFREEMIN = 3
SPECIFICATION LogSpec
INVARIANTS ContentKept
CHECK_DEADLOCK FALSE
