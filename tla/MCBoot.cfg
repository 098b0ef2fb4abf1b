SPECIFICATION FairSpec
CONSTANTS
    Setups <- AllSetups
    MaxContainers = 3
    MaxBoots = 4
CHECK_DEADLOCK FALSE
INVARIANTS
    NeverSkipsBlind
    Reregistered
PROPERTIES
    TokenSurvives
    MarkerVerified
    BootEnds
