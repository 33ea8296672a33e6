SPECIFICATION GoodDaySpec
CONSTANTS
    Tasks = {t1}
    Runners = {r1}
    Drain = Drain
    Threshold = 3
    MaxRestarts = 0
    None = None
PROPERTIES QueuedTaskRetried
CHECK_DEADLOCK FALSE
