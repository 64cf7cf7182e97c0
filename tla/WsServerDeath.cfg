\* One viewer that closes while records are posted to it.
CONSTANTS
    Conns = {c1}
    MaxRecords = 1
    MaxInputs = 2
SPECIFICATION WsSpec
PROPERTIES DeathIsFinal
CHECK_DEADLOCK FALSE
