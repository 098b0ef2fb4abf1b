SPECIFICATION FairSpec
CONSTANTS
    Users = {u1}
    MaxProcs = 2
    MaxCalls = 2
CHECK_DEADLOCK FALSE
PROPERTY RestartRetried
