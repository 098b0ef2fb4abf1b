SPECIFICATION Spec
CONSTANTS
    check = check
    audit = audit
    t1 = t1
    t2 = t2
    hourly = hourly
    daily = daily
    Tasks <- MCTasks
    Threads = {t1, t2}
    Schedules = {hourly, daily}
    BadCron = BadCron
    NoCron = NoCron
    Config <- CheckConfig
    EditRows <- AllRows
    MaxRuns = 1
    MaxEdits = 2
    MaxEditors = 1
    MaxBoots = 2
CHECK_DEADLOCK FALSE
SYMMETRY ThreadSym
INVARIANTS
    CronAgrees
    NoStrayJob
PROPERTIES
    ConfigWins
