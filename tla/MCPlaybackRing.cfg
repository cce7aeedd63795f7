SPECIFICATION FairSpec
CONSTANTS
    TotalFrames = 6
    Capacity = 4
    Chunk = 2
    Period = 3
    Prefill = 1
    MaxSegments = 2
    Junk = Junk
INVARIANTS TypeOK HeardInOrder
PROPERTY SegmentEnds
CHECK_DEADLOCK FALSE
