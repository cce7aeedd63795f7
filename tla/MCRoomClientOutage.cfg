SPECIFICATION FairSpec
CONSTANTS
    MaxCommands = 0
    MaxSessions = 1
    MaxOutages = 1
    MaxFailures = 0
    FirstStream = 1
PROPERTY HearsSteadyRoom
