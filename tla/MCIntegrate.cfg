SPECIFICATION FairSpec
CONSTANTS
    tool1 = tool1
    tool2 = tool2
    cli = cli
    daemon = daemon
    shell = shell
    n1 = n1
    n2 = n2
    k1 = k1
    k2 = k2
    Callers = {tool1, tool2, cli}
    Hosts = {daemon, shell}
    Names = {n1, n2}
    Keys = {k1, k2}
    Specs <- Own
    NoKey = NoKey
    NoOne = NoOne
    Setups <- Both
    MaxCalls = 3
    Templates = {tool2}
CHECK_DEADLOCK FALSE
PROPERTIES
    KeepsOthers
    KeepsSecrets
    CallsEnd
