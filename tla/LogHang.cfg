\* One client with packets shorter than a node's header.
CONSTANTS
    Clients = {a}
    Lengths = {2}
    MaxPackets = 5
    HDR = 1
    NODE = 4
    PACKETBUFALLOCSIZE = 16
    PACKETFREEMIN = 3
SPECIFICATION LogSpec
INVARIANTS ServerThreadRuns
CHECK_DEADLOCK FALSE
