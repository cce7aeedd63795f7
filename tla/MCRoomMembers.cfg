SPECIFICATION FairSpec
CONSTANTS
    d1 = d1
    c1 = c1
    c2 = c2
    c3 = c3
    good = good
    d2 = d2
    Devices = {d1, d2}
    Connections = {c1, c2, c3}
    Health = {good}
    NoReport = NoReport
    MaxClients = 2
    MaxToken = 3
    None = None
INVARIANTS TypeOK EveryMemberHasASession NewestJoinWins
PROPERTIES OnlyTheOwnerTouches ClosedSessionsLeave
CHECK_DEADLOCK FALSE
