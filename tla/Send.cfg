SPECIFICATION Spec
CONSTANTS
    Sender = {s1, s2}
    Batches <- SomeBatches
    Metas <- SomeMetas
    NoMeta = NoMeta
    Window = 1
    MaxTime = 2
    MaxCalls = 3
    MaxFaults = 1
SYMMETRY Symmetry
INVARIANTS TypeOK DedupWindow DuplicateInWindow AnswersAreTrue
