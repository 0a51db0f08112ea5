SPECIFICATION FairSpec
CONSTANTS
    GrpcCall = {g1}
    HttpCall = {h1}
    Topic = {t1, t2}
    MaxRecords = 1
    MaxChanges = 3
    MaxFaults = 1
INVARIANTS TypeOK Resynced CleanShutdown
PROPERTIES KeepsReaping Exits
CHECK_DEADLOCK FALSE
