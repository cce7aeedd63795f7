SPECIFICATION FairSpec
CONSTANTS
    Sent <- SentPackets
    MaxPackets = 2
    MaxAdvance = 2
    MaxGap = 1
    LastFrame = 4
    None = None
INVARIANTS TypeOK RefusedOnlyWhenPassed LossNotUnderReported
PROPERTIES AcceptedUntilPlayed EndsAfterLastFrame PlaybackEnds
CHECK_DEADLOCK FALSE
