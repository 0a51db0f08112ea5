SPECIFICATION Spec
CONSTANTS
    FullHashRangeEnd = 7
    SignBit = 4
    MaxShards = 2
    Cooldown = 1
    Retention = 1
    Specs <- OneSpec
    Sender = {s1}
    MaxLag = 2
    MaxTime = 1
    MaxCreates = 2
    MaxFaults = 2
INVARIANTS NoOrphanRoutes
