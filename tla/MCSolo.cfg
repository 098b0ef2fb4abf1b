SPECIFICATION Spec
CONSTANTS
    Specs <- MCSpecs
    MaxRuns = 3
    MaxMachines = 2
    MaxWrites = 1
CHECK_DEADLOCK FALSE
INVARIANTS
    CurrentComplete
    SecretKept
    DataFollows
    FailureReported
