SPECIFICATION FairSpec
CONSTANTS
    Tasks = {t1}
    Runners = {r1, r2}
    Drain = Drain
    Threshold = 2
    MaxRestarts = 1
    None = None
INVARIANTS TypeOK NothingForgotten BreakerCounts
PROPERTIES Redials StopEnds
CHECK_DEADLOCK FALSE
