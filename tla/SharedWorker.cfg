SPECIFICATION Spec
CONSTANTS
    Queue = {q1, q2}
    MaxCreates = 1
    MaxWorkers = 2
    MaxImage = 1
    MaxUnseen = 1
    MaxFaults = 0
SYMMETRY Symmetry
INVARIANTS ReadyHasWorker
CHECK_DEADLOCK FALSE
