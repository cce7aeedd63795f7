SPECIFICATION Spec
CONSTANTS
    h1 = h1
    h2 = h2
    Handlers = {h1, h2}
    NanosecondsPerSecond = 3
    SampleRate = 2
    TotalFrames = 10
    SeekFrames = {1}
    FramesPerPacket = 3
    SendAhead = 1
    CommandDelay = 13
    HostLatency = 1
    HandlerStall = 1
    MaxStreamId = 2
    LastCommandAt = 12
    MaxTime = 26
    None = None
SYMMETRY HandlerSymmetry
INVARIANTS TypeOK CutoffRespected PlayerAtPresentedFrame AnnouncementMatchesStream
PROPERTY ImplementsContract
CHECK_DEADLOCK FALSE
