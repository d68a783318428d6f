SPECIFICATION FairPoolSpec
CONSTANTS
    Tasks = {t1, t2, t3, t4}
    Nodes = {n1, n2}
    MaxConnections = 2
INVARIANTS
    PoolAccounting
    IdleQuiet
    NoStrandedWaiter
PROPERTIES
    EveryTaskEnds
