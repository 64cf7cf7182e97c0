\* Two clients whose packets are empty, fill a node, or are so long that
\* backPacketBuf does not find the second one of a node; with both lengths a body
\* may be placed outside of its node.
CONSTANTS
    Clients = {a, b}
    Lengths = {0, 4, 9}
    MaxPackets = 3
    HDR = 1
    NODE = 6
    PACKETBUFALLOCSIZE = 16
    PACKETFREEMIN = 3
VIEW MCView
SPECIFICATION LogFairSpec
INVARIANTS TypeOK OneOperation PacketMemorySound RelayInOrder Listening
PROPERTIES PacketMemoryOnlyGrows DisconnectAnnounced
CHECK_DEADLOCK FALSE
