SPECIFICATION FairSpec
CONSTANTS
    w1 = w1
    w2 = w2
    Agents = {a1}
    Windows <- MCWindows
    Reporters = {x1}
    MaxOpens <- MCOpens
    Asks <- MCAsks
    MaxChanges = 2
    MaxFaults = 1
INVARIANTS TypeOK ConsolesServed SecondarySurvives
PROPERTIES LiveUpdate ReconnectRepairs
CHECK_DEADLOCK FALSE
