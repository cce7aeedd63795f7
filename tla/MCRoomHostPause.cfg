SPECIFICATION FairSpec
CONSTANTS
    h1 = h1
    Handlers = {h1}
    NanosecondsPerSecond = 3
    SampleRate = 2
    TotalFrames = 7
    SeekFrames = {1}
    FramesPerPacket = 1
    SendAhead = 1
    CommandDelay = 6
    HostLatency = 1
    HandlerStall = 0
    MaxStreamId = 2
    LastCommandAt = 6
    MaxTime = 16
    None = None
PROPERTIES AcceptedCommandTaken
CHECK_DEADLOCK FALSE
