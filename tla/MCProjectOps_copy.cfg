\* copy_atomic: a copy and a metadata update of its source, no message lost.
SPECIFICATION Spec
CONSTANTS
    c1 = c1
    c2 = c2
    None = None
    Clients <- MCClients
    Scenarios <- MCCopyScenarios
    MinPartSize = 2
    MaxParts = 2
    InlineLimit = 1
    PageLimit = 2
    PieceCount = 2
    MaxComp = 3
    Foreign = {1}
    MaxCalls = 1
    MaxLosses = 0
INVARIANTS CopyAtomic
