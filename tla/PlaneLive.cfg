SPECIFICATION FairSpec
CONSTANTS
    Part = {p1}
    LogEnd = 1
    Group = {g1}
    NoGroup = NoGroup
    GroupOf <- OneGroup
    Uuid = {u1, u2}
    NoHandle = NoHandle
    Receiver = {r1}
    Client = {c1}
    Reaper = {w1}
    MaxMessages = 1
    PollBatch = 1
    SweepBatch = 2
    Timeouts = {1}
    ExtendTimeouts = {1}
    Grace = 1
    MaxReceiveCount = 2
    HasDLQ = TRUE
    DLQMetas = {"standard"}
    MaxFaults = 1
    MaxCancels = 1
 
PROPERTIES ExpiredIsReaped
