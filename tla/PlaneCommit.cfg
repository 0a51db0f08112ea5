SPECIFICATION Spec
CONSTANTS
    Part = {p1}
    LogEnd = 3
    Group <- NoGroupIds
    NoGroup = NoGroup
    GroupOf <- NoGroups
    Uuid = {u1}
    NoHandle = NoHandle
    Receiver = {r1, r2}
    Client = {c1, c2}
    Reaper = {w1}
    MaxMessages = 1
    PollBatch = 2
    SweepBatch = 2
    Timeouts = {1}
    ExtendTimeouts = {}
    Grace = 1
    MaxReceiveCount = 1
    HasDLQ = TRUE
    DLQMetas = {"standard"}
    MaxFaults = 0
    MaxCancels = 0
SYMMETRY Symmetry
INVARIANTS TypeOK TerminalExclusive TrackedUntilDone CommitsPassOnlyDone
PROPERTIES ImplementsQueue
