SPECIFICATION FairSpec
CONSTANTS
    Hosts = {h1, h2}
    Upstreams = {u1, u2}
    Modes <- MCModes
    NoRow = NoRow
    Missing = Missing
    Torn = Torn
    MaxChanges = 2
    MaxStarts = 2
CHECK_DEADLOCK FALSE
INVARIANTS
    ServesMap
PROPERTY MapFollows
