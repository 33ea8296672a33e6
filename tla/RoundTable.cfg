SPECIFICATION FairSpec
CONSTANTS
    Rounds = {r1, r2}
    MaxSeats = 2
    MaxTurns = 4
INVARIANTS TypeOK TurnsSettle RunningServed
PROPERTIES RoundsEnd
CHECK_DEADLOCK FALSE
