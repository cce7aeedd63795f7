SPECIFICATION FairSpec
CONSTANTS
    h1 = h1
    Handlers = {h1}
    NanosecondsPerSecond = 3
    SampleRate = 2
    TotalFrames = 7
    SeekFrames = {1}
    FramesPerPacket = 2
    SendAhead = 1
    CommandDelay = 8
    HostLatency = 1
    HandlerStall = 0
    MaxStreamId = 3
    LastCommandAt = 11
    MaxTime = 29
    None = None
PROPERTIES SeekKeepsOldPacketsOut
CHECK_DEADLOCK FALSE
