SPECIFICATION Spec
CONSTANTS
    Part = {p1}
    LogEnd = 2
    Group = {g1}
    NoGroup = NoGroup
    GroupOf <- OneGroup
    Uuid = {u1}
    NoHandle = NoHandle
    Receiver = {r1, r2}
    Client = {c1}
    Reaper = {w1}
    MaxMessages = 1
    PollBatch = 1
    SweepBatch = 2
    Timeouts = {1}
    ExtendTimeouts = {}
    Grace = 2
    MaxReceiveCount = 2
    HasDLQ = TRUE
    DLQMetas = {"absent", "standard"}
    MaxFaults = 0
    MaxCancels = 0
SYMMETRY Symmetry
INVARIANTS HandoutsBounded Redeliverable
PROPERTIES LockReleasedByOwner
