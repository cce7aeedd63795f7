SPECIFICATION FairSpec
CONSTANTS
    h1 = h1
    Handlers = {h1}
    NanosecondsPerSecond = 3
    SampleRate = 2
    TotalFrames = 5
    SeekFrames = {1}
    FramesPerPacket = 1
    SendAhead = 1
    CommandDelay = 6
    HostLatency <- NegativeLatency
    HandlerStall = 0
    MaxStreamId = 2
    LastCommandAt = 7
    MaxTime = 16
    None = None
PROPERTIES StopHonoured SeekHonoured
CHECK_DEADLOCK FALSE
