SPECIFICATION FairSpec
CONSTANTS
    MaxCommands = 2
    MaxSessions = 2
    MaxOutages = 1
    MaxFailures = 1
    FirstStream = 1
INVARIANT TypeOK
PROPERTIES EntersSegmentOnce FollowsRoom Reconnects
