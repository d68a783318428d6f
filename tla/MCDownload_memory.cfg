SPECIFICATION MCSpec
CONSTANTS
    N = 5
    K = 2
    LaunchMargin = 1
    MaxExtras = 2
    MaxSlow = 2
    Ranges <- MCRanges
    MaxRead = 2
    FirstAnswers = 2
    UploadBuffer = 2
    InitialStep = 3
    MaximumStep = 7
    MaxPending = 2
    NodeChunk = 2
    Sizes = {0, 3, 15}
    Slack = 1
    MaxTransfers = 2
INVARIANT TwoSegments
