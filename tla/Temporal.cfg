SPECIFICATION FairSpec
CONSTANTS
    Queue = {q1}
    MaxCreates = 2
    MaxWorkers = 2
    MaxImage = 2
    MaxUnseen = 1
    MaxFaults = 1
INVARIANTS TypeOK NamespaceExists ReadyHasDeployment NoOrphanWorker
PROPERTIES CleanedUp WorkerIsDeployed
CHECK_DEADLOCK FALSE
