SPECIFICATION FairSpec
CONSTANTS
    NanosecondsPerSecond = 3
    SampleRate = 2
    MaxCount = 100
    HostAhead = 1
    DesiredSamples = 3
    FirstTimeout = 2
    LaterTimeout = 1
    ReceiveTimeout = 1
    MeasureGap = 1
    HostStart = 0
    HostLatency = 1
    InitialFrame = 1
    PacketStarts = {1, 2, 3, 5}
    PlaybackDelay = 1
    OutputLatency = 1
    StartupLead = 1
    DeviceStart = 3
    Period = 2
    MaxTime = 4
    MaxDatagrams = 4
    MaxInFlight = 2
    None = None
INVARIANTS TypeOK SamplesAreFresh OffsetErrorBounded EstimatorAccepts StartsTogether StartIsAhead
PROPERTY MeasurementEnds
CHECK_DEADLOCK FALSE
