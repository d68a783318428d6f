SPECIFICATION PoolSpec
CONSTANTS
    Tasks = {t1, t2, t3, t4}
    Nodes = {n1}
    MaxConnections = 2
SYMMETRY Symmetry
INVARIANTS
    WaitsOnlyAtCap
