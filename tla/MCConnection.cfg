SPECIFICATION ConnSpec
CONSTANTS
    Addrs = 2
    Deadline = 3
    Budgets <- MCBudgets
    MaxPacket = 2
    HighWater = 2
    MaxPending = 2
    None = None
INVARIANTS
    DialHonest
    AttemptsReported
    
    ReadsExact
    QueueBounded
PROPERTIES
    ConnCallsEnd
