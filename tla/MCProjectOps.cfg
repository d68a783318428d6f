\* project_ops: two clients, two calls each, one lost message.
SPECIFICATION Spec
CONSTANTS
    c1 = c1
    c2 = c2
    None = None
    Clients <- MCClients
    Scenarios <- MCScenarios
    MinPartSize = 2
    MaxParts = 2
    InlineLimit = 1
    PageLimit = 2
    PieceCount = 2
    MaxComp = 3
    Foreign = {1}
    MaxCalls = 2
    MaxLosses = 1
SYMMETRY MCSymmetry
INVARIANTS SegmentKeysOpen MetadataOpens ListingComplete LockIsOwn ReadsOneEdition
PROPERTIES StoreStep RevokedInert
