SPECIFICATION Spec
CONSTANTS
    Sender = {s1}
    Batches <- OneBatch
    Metas <- FifoOnly
    NoMeta = NoMeta
    Window = 1
    MaxTime = 1
    MaxCalls = 2
    MaxFaults = 0
INVARIANTS DuplicateWasAccepted
