SPECIFICATION FairSpec
CONSTANTS
    Keys = {n1, n2, n3}
    Workers = {w1, w2}
    Cooldowns = {2}
    MaxDelay = 1
    MaxFailures = 0
    BackOff <- MCBackOff
INVARIANTS
    OneWorkerPerKey
    QueuedOnce
PROPERTIES
    ImplementsTaskQueue
    EveryKeyServed
    WorkersStop
