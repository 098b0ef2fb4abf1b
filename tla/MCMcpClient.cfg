SPECIFICATION FairSpec
CONSTANTS
    Users = {u1}
    MaxProcs = 3
    MaxCalls = 4
CHECK_DEADLOCK FALSE
INVARIANTS
    OneProcess
    NoOrphan
    PendExact
PROPERTIES
    CallsReturn
    CloseReturns
