SPECIFICATION Spec
CONSTANTS
    Specs <- OneSpec
    MaxRuns = 2
    MaxMachines = 1
    MaxWrites = 1
CHECK_DEADLOCK FALSE
INVARIANT Captured
