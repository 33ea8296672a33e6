SPECIFICATION FairSpec
CONSTANTS
    agent = a1
    Tasks = {t1}
    Sockets = {s1, s2}
    MaxRetries = 2
    Runners = {r1, r2}
    Drain = drain
    Threshold = 1
    None = None
INVARIANTS TypeOK RecordedIsReal PushKept
PROPERTIES PushedIsAnswered
CHECK_DEADLOCK FALSE
