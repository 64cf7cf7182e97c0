\* Two viewers: the list is shared, and dumps run between their handlers.
CONSTANTS
    Conns = {c1, c2}
    MaxRecords = 1
    MaxInputs = 1
SYMMETRY MCSymmetry
SPECIFICATION WsSpec
INVARIANTS NoDanglingSession DumpIteratorValid
CHECK_DEADLOCK FALSE
