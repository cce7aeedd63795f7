SPECIFICATION Spec
CONSTANTS
    WindowSize = 2
    FirstStream = 1
    MaxPackets = 2
    MaxCommands = 2
    MaxRejoins = 1
INVARIANT OnlyDuplicatesDiscarded
CHECK_DEADLOCK FALSE
