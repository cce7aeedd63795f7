SPECIFICATION Spec
CONSTANTS
    TotalFrames = 6
    Capacity = 4
    Chunk = 2
    Period = 3
    Prefill = 1
    MaxSegments = 2
    Junk = Junk
INVARIANT EndAfterLastFrame
CHECK_DEADLOCK FALSE
