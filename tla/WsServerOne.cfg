\* One viewer, two records, three header lines or frames.
CONSTANTS
    Conns = {c1}
    MaxRecords = 2
    MaxInputs = 3
SPECIFICATION WsFairSpec
INVARIANTS TypeOK ReadDiscipline WriteDiscipline FramesWhole
PROPERTIES ImplementsBroadcast CloseAfterFlush Delivery Released DisconnectNoticed
CHECK_DEADLOCK FALSE
