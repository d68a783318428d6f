SPECIFICATION FairSpec
CONSTANTS
    Calls = {list, begin, commit}
    Idempotent = {list}
    Conns = {k1, k2, k3}
    MaxConns = 2
    MaxAttempts = 2
    NoCall = NoCall
    NoConn = NoConn
INVARIANTS
    CallsExact
PROPERTIES
    CallsReturn
