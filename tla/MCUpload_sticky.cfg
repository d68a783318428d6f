SPECIFICATION MCSpec
CONSTANTS
    MaxSegment = 2
    MaxWrite = 3
    MaxBytes = 7
    Pieces = {1, 2, 3, 4}
    MaxAttempts = 4
    Verdicts <- MCVerdicts
    TagOf <- MCTag
INVARIANT FailureSticks
