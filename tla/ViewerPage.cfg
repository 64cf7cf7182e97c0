\* One log client and the page of one viewer.
CONSTANTS
    Clients = {a}
    Lengths = {4}
    MaxPackets = 5
    HDR = 1
    NODE = 4
    PACKETBUFALLOCSIZE = 16
    PACKETFREEMIN = 3
    Id <- MCId
    Cut <- MCCut
    Selects <- MCSelects
    BadSelector <- MCBadSelector
    MaxClicks = 1
SPECIFICATION DsSpec
INVARIANTS RowsAreTheEndOfTheLog TabsOfNames UserMayRetry
PROPERTIES NamedRowsStay
CHECK_DEADLOCK FALSE
