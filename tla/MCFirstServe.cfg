SPECIFICATION FirstServeSpec
CONSTANTS
    r1 = r1
    r2 = r2
    Null = Null
    Malformed = Malformed
    Nothing = Nothing
    MaxIterations = 2
    MaxTurns = 1
    Budget = 3
    VerifyPort = TRUE
    CliRuns <- MCCliRuns
    MaxCost = 2
    Requests = {r1, r2}
    Kinds <- MCKinds
    Wires <- MCWires
    ReadyPath = TRUE
    AppPort = TRUE
    MaxChanges = 1
    MaxBoots = 1
CHECK_DEADLOCK FALSE
INVARIANTS
    NoInstallerLeft
    SpendBounded
    RefusedUniformly
    NoFalseStartingUp
    ConfigFresh
PROPERTIES
    GateOpens
    CancelledInstallEnds
