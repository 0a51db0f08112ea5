SPECIFICATION Spec
CONSTANTS
    GrpcCall = {g1, g2}
    HttpCall = {}
    Topic = {t1, t2}
    MaxRecords = 1
    MaxChanges = 3
    MaxFaults = 0
SYMMETRY Symmetry
INVARIANTS SkippedIsClosed
CHECK_DEADLOCK FALSE
