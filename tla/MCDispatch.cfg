SPECIFICATION FairSpec
CONSTANTS
    check = check
    audit = audit
    t1 = t1
    t2 = t2
    hourly = hourly
    daily = daily
    Tasks <- OneTask
    Threads = {t1, t2}
    Schedules = {hourly, daily}
    BadCron = BadCron
    NoCron = NoCron
    Config <- CheckConfig
    EditRows <- EditKinds
    MaxRuns = 2
    MaxEdits = 1
    MaxEditors = 1
    MaxBoots = 2
CHECK_DEADLOCK FALSE
INVARIANTS
    TypeOK
    SingleFlight
    InflightExact
    OwnRow
    RunningIsAccounted
    DrainedBeforeStop
PROPERTIES
    TerminalIsFinal
    LedgerSpec
    RunsEnd
    InflightReleased
    ShutdownEnds
