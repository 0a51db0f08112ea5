SPECIFICATION Spec
CONSTANTS
    Part = {p1}
    LogEnd = 3
    Group <- NoGroupIds
    NoGroup = NoGroup
    GroupOf <- NoGroups
    Uuid = {u1}
    NoHandle = NoHandle
    Receiver = {r1}
    Client = {c1}
    Reaper = {}
    MaxMessages = 1
    PollBatch = 2
    SweepBatch = 2
    Timeouts = {1}
    ExtendTimeouts = {}
    Grace = 1
    MaxReceiveCount = 2
    HasDLQ = TRUE
    DLQMetas = {"standard"}
    MaxFaults = 0
    MaxCancels = 0
SYMMETRY Symmetry
INVARIANTS WatermarkSafe
