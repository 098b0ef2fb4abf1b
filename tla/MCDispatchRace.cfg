SPECIFICATION Spec
CONSTANTS
    check = check
    audit = audit
    t1 = t1
    t2 = t2
    hourly = hourly
    daily = daily
    Tasks <- MCTasks
    Threads = {t1, t2}
    Schedules = {hourly, daily}
    BadCron = BadCron
    NoCron = NoCron
    Config <- CheckConfig
    EditRows <- GoodRows
    MaxRuns = 0
    MaxEdits = 2
    MaxEditors = 2
    MaxBoots = 1
CHECK_DEADLOCK FALSE
INVARIANT CronAgrees
